---------------------------- MODULE Spec2Model ----------------------------
(***************************************************************************)
(* A model of the Kibana resource exporter (graphaelli/kb-ascode-browser): *)
(* the content script's URL classifier, panel harvesters, resource         *)
(* aggregator and export router (src/content/content.js), with the         *)
(* download collaborator of the background worker (src/unnamed/part_001).  *)
(*                                                                         *)
(* JavaScript values are tagged records.  A JavaScript string is a         *)
(* sequence of tokens, each token standing for a piece of text, so that    *)
(* the empty string, concatenation and regular-expression capture are      *)
(* what they are in the code.                                              *)
(***************************************************************************)
EXTENDS Integers, Sequences, FiniteSets, TLC

VARIABLES
  url,            \* window.location.href, a string (sequence of tokens)
  dashResponse,   \* what the backend answers to GET /api/saved_objects/dashboard/{id}
  dom,            \* the panel containers rendered on the page, in document order
  detected,       \* classifier run: the value returned by detectSavedObject
  harvested,      \* harvester run: the outcome of getEmbeddedPanelsFromAPI
  scanPc,         \* position of the running getAllResources call
  resources,      \* the list getAllResources builds and returns
  domRuns,        \* how many times detectEmbeddedPanels ran in this scan
  request,        \* the export request the listener is handling
  pc,             \* position of the export handler
  branch,         \* which branch of the export handler was taken
  calls,          \* backend HTTP calls issued, oldest first
  reply,          \* what the backend answered to the bulk or alternate call
  content,        \* the export handler's local `content`
  downloads,      \* downloadFile messages sent to the background worker
  responses,      \* values passed to sendResponse, oldest first
  panelConfig,    \* synthesizer run: the panel configuration block given
  exported,       \* synthesizer run: the text constructPanelExport returned
  handled,        \* a message the listener handled without awaiting anything
  highlightedElement,  \* content script: the panel container highlighted
  highlightOverlay,    \* content script: the overlay drawn over it
  popupPc,        \* popup: the await its running function is suspended at
  visible,        \* popup: the state elements without the class 'hidden'
  currentSavedObject,  \* popup: the descriptor the page reported
  currentTabId,   \* popup: the tab the popup was opened on
  shownText,      \* popup: the text shown in its message elements
  scrollY,        \* page: how far the document is scrolled
  overlays,       \* page: how many highlight overlays are attached to the body
  injections,     \* page: how many times the content script file ran on it
  loaded,         \* page: window.__kibanaExporterLoaded
  messageListeners,   \* page: listeners registered on runtime.onMessage
  positionListeners,  \* page: updateHighlightPosition listeners per event
  debugEnabled,   \* logger: _debugEnabled
  initialized,    \* logger: _initialized
  initPromise,    \* logger: _initPromise
  initCalls,      \* logger: init() calls awaiting _initPromise
  storage,        \* extension storage: the value kept under debugModeEnabled
  storageReads,   \* extension storage: how many reads were issued
  inbox,          \* extension storage: replies and events not yet delivered
  lastSet         \* logger: the value of the latest setDebugEnabled call

\* the page and its backend, as a handler finds them
pageVars == << url, dashResponse, dom >>

\* the inputs and results of the runs of a single function
runVars == << detected, harvested, panelConfig, exported >>

\* the listener's branches without an await, and the highlight they keep
listenerVars == << handled, highlightedElement, highlightOverlay >>

\* the popup
popupVars == << popupPc, visible, currentSavedObject, currentTabId, shownText >>

\* the window of the page the content script is injected into
windowVars == << scrollY, overlays, injections, loaded, messageListeners,
                positionListeners >>

\* the logger singleton and the extension storage it reads
loggerVars == << debugEnabled, initialized, initPromise, initCalls, storage,
                storageReads, inbox, lastSet >>

vars == << url, dashResponse, dom, detected, harvested, scanPc, resources, domRuns,
           request, pc, branch, calls, reply, content, downloads, responses,
           panelConfig, exported, handled, highlightedElement,
           highlightOverlay, popupPc, visible, currentSavedObject,
           currentTabId, shownText, scrollY, overlays, injections, loaded,
           messageListeners, positionListeners, debugEnabled, initialized,
           initPromise, initCalls, storage, storageReads, inbox, lastSet >>

-----------------------------------------------------------------------------
(* Bounds of the model *)

\* longest page URL, in tokens, of the classifier runs
MaxUrlLen == 3

\* longest panel list of a parent document in the harvester runs
MaxPanels == 3

\* longest panel list of a parent document in the scan runs
MaxScanPanels == 2

\* most panel containers rendered on the page in the scan runs
MaxContainers == 2

\* longest panel list of a parent document in the export runs
MaxExportPanels == 2

-----------------------------------------------------------------------------
(* JavaScript values *)

Undefined == [kind |-> "undefined"]
Null == [kind |-> "null"]
Str(s) == [kind |-> "string", str |-> s]
Num(n) == [kind |-> "number", num |-> n]
Bool(b) == [kind |-> "boolean", bool |-> b]

\* a string of one token
S(t) == Str(<< t >>)

\* ToBoolean: what `if (v)`, `a && b` and `a || b` test
Truthy(v) ==
  CASE v.kind = "undefined" -> FALSE
    [] v.kind = "null"      -> FALSE
    [] v.kind = "string"    -> IF "str" \in DOMAIN v THEN v.str # << >> ELSE TRUE
    [] v.kind = "number"    -> v.num # 0
    [] v.kind = "boolean"   -> v.bool
    [] OTHER                -> TRUE

\* a || b
OrElse(a, b) == IF Truthy(a) THEN a ELSE b

Min(set) == CHOOSE m \in set : \A n \in set : m <= n

\* obj.field and obj?.field of a property that may be absent; reading a
\* property of a primitive gives undefined.
Get(obj, field) ==
  IF obj.kind = "object" /\ field \in DOMAIN obj THEN obj[field] ELSE Undefined

\* a plain object literal {}
EmptyObject == [kind |-> "object"]

Array(items) == [kind |-> "array", items |-> items]

\* The outcome of a call: a returned value or a thrown error with its message.
Return(v) == [ok |-> TRUE, value |-> v]
Throw(message) == [ok |-> FALSE, error |-> Str(message)]

\* JSON.stringify(v): the text that encodes v.  A string holding JSON text
\* is a string whose content is the encoded value.
JSONStringify(v) == [kind |-> "string", json |-> v]

\* JSON.parse(text): the encoded value, or a SyntaxError for text that is
\* not JSON.
JSONParse(text) ==
  IF text.kind = "string" /\ "json" \in DOMAIN text
    THEN Return(text.json)
    ELSE Throw(<< "SyntaxError: Unexpected token" >>)

Reverse(s) == [i \in 1..Len(s) |-> s[Len(s) + 1 - i]]

-----------------------------------------------------------------------------
(* URL classifier: KIBANA_PATTERNS, ALTERNATIVE_API_TYPES,                 *)
(* NON_EXPORTABLE_TYPES, detectSavedObject                                 *)

\* The keys of KIBANA_PATTERNS in insertion order, the order of Object.entries.
KIBANA_PATTERNS ==
  << "dashboard", "visualization", "lens", "search", "map",
     "index-pattern", "query", "slo", "alert", "cases" >>

\* The literal text each pattern starts with.
PatternPrefix(type) ==
  CASE type = "dashboard"     -> "/app/dashboards#/view/"
    [] type = "visualization" -> "/app/visualize#/edit/"
    [] type = "lens"          -> "/app/lens#/edit/"
    [] type = "search"        -> "/app/discover#/view/"
    [] type = "map"           -> "/app/maps#/map/"
    [] type = "index-pattern" -> "/app/management/kibana/indexPatterns/patterns/"
    [] type = "query"         -> "/app/management/kibana/objects/savedQueries/"
    [] type = "slo"           -> "/app/slos/"
    [] type = "alert"         -> "/app/management/insightsAndAlerting/triggersActions/rule/"
    [] type = "cases"         -> "/app/security/cases/"

PrefixTokens == { PatternPrefix(KIBANA_PATTERNS[i]) : i \in 1..Len(KIBANA_PATTERNS) }

\* The dashboards application without a view: a listing page.
DashboardsApp == "/app/dashboards"

\* Tokens of one character.
CharTokens == { "a", "?", "&", "#", "/" }

\* Tokens whose text has a '/': every multi-character token starts with one.
SlashTokens == PrefixTokens \cup { DashboardsApp, "/" }

\* Tokens whose text has a '#'.
HashTokens ==
  { "#", "/app/dashboards#/view/", "/app/visualize#/edit/", "/app/lens#/edit/",
    "/app/discover#/view/", "/app/maps#/map/" }

\* The characters the capture group of a pattern excludes: [^?&] and, for
\* slo, [^?&/].
PatternStops(type) ==
  IF type = "slo" THEN { "?", "&" } \cup SlashTokens ELSE { "?", "&" }

\* The longest run of tokens of s from position i on that the capture
\* group of the pattern accepts: ([^...]+) is greedy.
RECURSIVE CaptureFrom(_, _, _)
CaptureFrom(s, i, stops) ==
  IF i > Len(s) \/ s[i] \in stops
    THEN << >>
    ELSE << s[i] >> \o CaptureFrom(s, i + 1, stops)

\* url.match(pattern): the capture of the leftmost match, or << >> for no
\* match (match is null; a capture is never empty).
PatternMatch(s, type) ==
  LET hits == { i \in 1..Len(s) :
                  /\ s[i] = PatternPrefix(type)
                  /\ CaptureFrom(s, i + 1, PatternStops(type)) # << >> }
  IN IF hits = {} THEN << >>
     ELSE CaptureFrom(s, Min(hits) + 1, PatternStops(type))

\* ALTERNATIVE_API_TYPES[type].fileExtension, Undefined for a type the
\* table does not hold.
AltFileExtension(type) ==
  IF type \in { S("slo"), S("alert") } THEN S("json") ELSE Undefined

\* The table with its alert entry lost.
IsAlternativeApiType_sloOnly(type) == type = S("slo")

\* ALTERNATIVE_API_TYPES[type] is truthy
IsAlternativeApiType(type) == Truthy(AltFileExtension(type))

\* NON_EXPORTABLE_TYPES[type]
NonExportableReason(type) ==
  IF type = S("cases")
    THEN S("Cases are not exportable via any known API")
    ELSE Undefined

\* extractTitle(): the title scraped from the page; its value plays no part
\* in classification.
PageTitle == S("Sales")

\* the result object of detectSavedObject for a matched type
Descriptor(type, id, href) ==
  [ kind |-> "object",
    type |-> S(type),
    id |-> Str(id),
    title |-> PageTitle,
    url |-> Str(href),
    useAlternativeApi |->
      IF IsAlternativeApiType(S(type)) THEN Bool(TRUE) ELSE Undefined,
    notExportable |->
      IF Truthy(NonExportableReason(S(type))) THEN Bool(TRUE) ELSE Undefined,
    notExportableReason |->
      IF Truthy(NonExportableReason(S(type)))
        THEN NonExportableReason(S(type)) ELSE Undefined ]

\* the for-loop of detectSavedObject from table position k on
RECURSIVE DetectFrom(_, _)
DetectFrom(href, k) ==
  IF k > Len(KIBANA_PATTERNS) THEN Null
  ELSE LET type == KIBANA_PATTERNS[k]
           id == PatternMatch(href, type)
       IN IF id # << >>
            THEN Descriptor(type, id, href)
            ELSE DetectFrom(href, k + 1)

detectSavedObject(href) == DetectFrom(href, 1)

\* url.includes('/app/dashboards')
IncludesDashboards(href) ==
  \E i \in 1..Len(href) : href[i] \in { DashboardsApp, "/app/dashboards#/view/" }

-----------------------------------------------------------------------------
(* Panel harvester, API path: fetchDashboardData, extractPanelTitle,       *)
(* extractPanelSubType, getEmbeddedPanelsFromAPI                           *)

\* fetchDashboardData(dashboardId) when the backend answers resp: a
\* rejected fetch and a non-success status throw, response.json() parses
\* the body.
fetchDashboardData(resp) ==
  IF resp.kind = "rejected" THEN Throw(<< "Failed to fetch" >>)
  ELSE IF ~resp.ok THEN Throw(<< "Failed to fetch dashboard: ", resp.status >>)
  ELSE JSONParse(resp.body)

\* extractPanelTitle(panel): the six places a title may live, then the default
extractPanelTitle(panel) ==
  LET embeddableConfig == OrElse(Get(panel, "embeddableConfig"), EmptyObject)
      attributes == Get(embeddableConfig, "attributes")
  IN IF Truthy(Get(embeddableConfig, "title"))
       THEN Get(embeddableConfig, "title")
     ELSE IF Truthy(Get(attributes, "title"))
       THEN Get(attributes, "title")
     ELSE IF Truthy(Get(Get(embeddableConfig, "savedVis"), "title"))
       THEN Get(Get(embeddableConfig, "savedVis"), "title")
     ELSE IF Truthy(Get(Get(embeddableConfig, "vis"), "title"))
       THEN Get(Get(embeddableConfig, "vis"), "title")
     ELSE IF Truthy(Get(Get(Get(attributes, "state"), "visualization"), "title"))
       THEN Get(Get(Get(attributes, "state"), "visualization"), "title")
     ELSE IF Truthy(Get(panel, "title"))
       THEN Get(panel, "title")
     ELSE S("Untitled Panel")

\* typeMap of extractPanelSubType
LensTypeMap(vizType) ==
  CASE vizType = S("lnsXY")           -> S("xy")
    [] vizType = S("lnsMetric")       -> S("metric")
    [] vizType = S("lnsPie")          -> S("pie")
    [] vizType = S("lnsDatatable")    -> S("table")
    [] vizType = S("lnsLegacyMetric") -> S("metric")
    [] vizType = S("lnsGauge")        -> S("gauge")
    [] vizType = S("lnsHeatmap")      -> S("heatmap")
    [] vizType = S("lnsTagcloud")     -> S("tag cloud")
    [] vizType = S("lnsMosaic")       -> S("mosaic")
    [] vizType = S("lnsPartition")    -> S("partition")
    [] OTHER                          -> Undefined

\* token.toLowerCase() for the tokens of visualization type names
LowerCaseToken(t) ==
  CASE t = "Custom" -> "custom"
    [] t = "XY"     -> "xy"
    [] OTHER        -> t

\* seriesType.replace(/_/g, ' ')
UnderscoresToSpaces(s) ==
  Str([i \in 1..Len(s.str) |-> IF s.str[i] = "_" THEN " " ELSE s.str[i]])

\* vizType.replace(/^lns/, '').toLowerCase()
StripLnsLowerCase(s) ==
  LET rest == IF s.str # << >> /\ s.str[1] = "lns" THEN Tail(s.str) ELSE s.str
  IN Str([i \in 1..Len(rest) |-> LowerCaseToken(rest[i])])

\* extractPanelSubType(panel)
extractPanelSubType(panel) ==
  LET embeddableConfig == OrElse(Get(panel, "embeddableConfig"), EmptyObject)
      attributes == OrElse(Get(embeddableConfig, "attributes"), EmptyObject)
      state == OrElse(Get(attributes, "state"), EmptyObject)
      visualization == OrElse(Get(state, "visualization"), EmptyObject)
      savedVis == OrElse(Get(embeddableConfig, "savedVis"), EmptyObject)
  IN IF Get(panel, "type") = S("lens")
          /\ Truthy(Get(visualization, "preferredSeriesType"))
       THEN UnderscoresToSpaces(Get(visualization, "preferredSeriesType"))
     ELSE IF Get(panel, "type") = S("lens")
          /\ Truthy(Get(attributes, "visualizationType"))
       THEN OrElse(LensTypeMap(Get(attributes, "visualizationType")),
                   StripLnsLowerCase(Get(attributes, "visualizationType")))
     ELSE IF Get(panel, "type") = S("visualization")
          /\ Truthy(Get(savedVis, "type"))
       THEN Get(savedVis, "type")
     ELSE Null

\* typeof v === 'number'
IsNumber(v) == v.kind = "number"

\* The comparator with row and column exchanged.
GridCompare_columnFirst(a, b) ==
  LET origin == [kind |-> "object", y |-> Num(0), x |-> Num(0)]
      aGrid == OrElse(Get(a, "gridData"), origin)
      bGrid == OrElse(Get(b, "gridData"), origin)
  IN IF Get(aGrid, "x") # Get(bGrid, "x")
       THEN Get(aGrid, "x").num - Get(bGrid, "x").num
       ELSE Get(aGrid, "y").num - Get(bGrid, "y").num

\* The comparator of panels.sort in getEmbeddedPanelsFromAPI.  A result of
\* NaN (a coordinate that is no number) counts as 0 in Array.prototype.sort.
GridCompare(a, b) ==
  LET origin == [kind |-> "object", y |-> Num(0), x |-> Num(0)]
      aGrid == OrElse(Get(a, "gridData"), origin)
      bGrid == OrElse(Get(b, "gridData"), origin)
      Minus(u, v) == IF IsNumber(u) /\ IsNumber(v) THEN u.num - v.num ELSE 0
  IN IF Get(aGrid, "y") # Get(bGrid, "y")
       THEN Minus(Get(aGrid, "y"), Get(bGrid, "y"))
       ELSE Minus(Get(aGrid, "x"), Get(bGrid, "x"))

\* const rowThreshold = 50
rowThreshold == 50

Abs(n) == IF n < 0 THEN -n ELSE n

\* the position comparator with rows taken as fixed bands of the viewport
PositionCompare_viewportRows(a, b) ==
  LET aRow == a.position.top \div rowThreshold
      bRow == b.position.top \div rowThreshold
  IN IF aRow # bRow
       THEN aRow - bRow
       ELSE a.position.left - b.position.left

\* The comparator of the position sorts in detectEmbeddedPanels and
\* highlightPanel.
PositionCompare(a, b) ==
  LET rowDiff == a.position.top - b.position.top
  IN IF Abs(rowDiff) > rowThreshold
       THEN rowDiff
       ELSE a.position.left - b.position.left

Compare(which, a, b) ==
  IF which = "grid" THEN GridCompare(a, b) ELSE PositionCompare(a, b)

(* Array.prototype.sort of the browser the extension runs in (V8), for     *)
(* arrays shorter than 64: the leading run is found and, when strictly     *)
(* descending, reversed; the rest is inserted by binary search.            *)

\* the number of elements of the leading run of arr, idx the next to look at
RECURSIVE RunLength(_, _, _, _)
RunLength(which, arr, idx, descending) ==
  IF idx > Len(arr) THEN Len(arr)
  ELSE LET order == Compare(which, arr[idx], arr[idx - 1])
       IN IF (descending /\ order >= 0) \/ (~descending /\ order < 0)
            THEN idx - 1
            ELSE RunLength(which, arr, idx + 1, descending)

CountAndMakeRun(which, arr) ==
  LET descending == Compare(which, arr[2], arr[1]) < 0
      run == RunLength(which, arr, 3, descending)
  IN [ arr |-> IF descending
                 THEN Reverse(SubSeq(arr, 1, run)) \o SubSeq(arr, run + 1, Len(arr))
                 ELSE arr,
       run |-> run ]

\* where pivot belongs among the first `right` elements (0-based bounds)
RECURSIVE BinarySearch(_, _, _, _, _)
BinarySearch(which, arr, pivot, left, right) ==
  IF left >= right THEN left
  ELSE LET mid == left + ((right - left) \div 2)
       IN IF Compare(which, pivot, arr[mid + 1]) < 0
            THEN BinarySearch(which, arr, pivot, left, mid)
            ELSE BinarySearch(which, arr, pivot, mid + 1, right)

\* insert the elements from 0-based position start on into the sorted front
RECURSIVE BinaryInsertionSort(_, _, _)
BinaryInsertionSort(which, arr, start) ==
  IF start >= Len(arr) THEN arr
  ELSE LET pivot == arr[start + 1]
           left == BinarySearch(which, arr, pivot, 0, start)
           moved == SubSeq(arr, 1, left) \o << pivot >>
                      \o SubSeq(arr, left + 1, start)
                      \o SubSeq(arr, start + 2, Len(arr))
       IN BinaryInsertionSort(which, moved, start + 1)

\* a sort that keeps only the first of the elements that compare equal
RECURSIVE FirstOfTies(_, _, _)
FirstOfTies(which, arr, i) ==
  IF i > Len(arr) THEN << >>
  ELSE IF \E j \in 1..(i - 1) : Compare(which, arr[j], arr[i]) = 0
    THEN FirstOfTies(which, arr, i + 1)
    ELSE << arr[i] >> \o FirstOfTies(which, arr, i + 1)

ArraySort_droppingTies(which, arr) ==
  LET kept == FirstOfTies(which, arr, 1)
  IN IF Len(kept) < 2 THEN kept
     ELSE LET made == CountAndMakeRun(which, kept)
          IN BinaryInsertionSort(which, made.arr, made.run)

ArraySort(which, arr) ==
  IF Len(arr) < 2 THEN arr
  ELSE LET made == CountAndMakeRun(which, arr)
       IN BinaryInsertionSort(which, made.arr, made.run)

\* the object pushed to resources for one panel
PanelDescriptor(panel, dashboardId) ==
  [ kind |-> "object",
    type |-> Get(panel, "type"),
    subType |-> extractPanelSubType(panel),
    id |-> Null,
    title |-> extractPanelTitle(panel),
    panelIndex |-> Get(panel, "panelIndex"),
    dashboardId |-> dashboardId,
    isEmbedded |-> Bool(TRUE) ]

\* getEmbeddedPanelsFromAPI(dashboardId) when the backend answers resp:
\* returns the list of descriptors or throws.
getEmbeddedPanelsFromAPI(dashboardId, resp) ==
  LET fetched == fetchDashboardData(resp)
  IN IF ~fetched.ok THEN fetched
     ELSE IF fetched.value.kind \in { "null", "undefined" }
       THEN Throw(<< "TypeError: Cannot read properties of null" >>)
     ELSE LET panelsJSON == Get(Get(fetched.value, "attributes"), "panelsJSON")
          IN IF ~Truthy(panelsJSON) THEN Return(<< >>)
             ELSE LET parsed == JSONParse(panelsJSON)
                  IN IF ~parsed.ok THEN parsed
                     ELSE IF parsed.value.kind # "array"
                       THEN Throw(<< "TypeError: panels.sort is not a function" >>)
                     ELSE LET panels == ArraySort("grid", parsed.value.items)
                          IN Return([i \in 1..Len(panels) |->
                                       PanelDescriptor(panels[i], dashboardId)])

-----------------------------------------------------------------------------
(* Panel harvester, DOM path: extractPanelInfo, detectEmbeddedPanels.      *)
(*                                                                         *)
(* A panel container is the record of what the DOM answers to each probe   *)
(* of extractPanelInfo:                                                    *)
(*   titleTexts     textContent.trim() of the element found by each title  *)
(*                  selector that finds one, in selector order             *)
(*   dataAttrs      getAttribute of the four data attributes, in order     *)
(*   childData      for each descendant carrying one of the three data     *)
(*                  attributes, their values in the order they are read    *)
(*   editLinks      href of each descendant link with "/edit/" in it       *)
(*   lensContainer  whether a descendant matches the lns selector          *)
(*   visContainer   the first descendant matching the embeddable selector  *)
(*                  (its two id attributes), or Null                       *)
(*   attrValues     the attribute values of all descendants, in order      *)
(*   testSubj, className   of the container itself                         *)
(*   innerHTML      the marker words its lower-cased markup contains       *)
(*   rect           getBoundingClientRect(): top and left                  *)
(* The page is the list of elements the first matching panel selector      *)
(* finds, with the position of that selector in highlightPanel's list.     *)

\* the first truthy value of a list, Null when there is none
RECURSIVE FirstTruthy(_)
FirstTruthy(values) ==
  IF values = << >> THEN Null
  ELSE IF Truthy(Head(values)) THEN Head(values)
  ELSE FirstTruthy(Tail(values))

\* whether the text of a string includes the needle; each token lists the
\* needles its text holds
TokenIncludes(token, needle) ==
  << token, needle >> \in
    { << "/app/lens#", "/lens" >>, << "/app/visualize#", "/visualize" >>,
      << "/app/maps#", "/maps" >>, << "/app/discover#", "/discover" >>,
      << "lensPanel", "lens" >>, << "mapPanel", "map" >>,
      << "searchPanel", "search" >>, << "discoverPanel", "discover" >>,
      << "visPanel", "vis" >> }

Includes(string, needle) ==
  /\ string.kind = "string"
  /\ \E i \in 1..Len(string.str) : TokenIncludes(string.str[i], needle)

\* tokens that have the shape of a UUID
UuidTokens == { "550e8400-e29b-41d4-a716-446655440000" }

\* value.match(/([a-f0-9]{8}-...-[a-f0-9]{12})/i): the first UUID in the
\* value, Null when it has none
UuidMatch(value) ==
  LET hits == { i \in 1..Len(value.str) : value.str[i] \in UuidTokens }
  IN IF hits = {} THEN Null ELSE S(value.str[Min(hits)])

\* href.match(/\/edit\/([^?&/#]+)/): the captured id, Null for no match
EditLinkMatch(href) ==
  LET stops == { "?", "&", "/", "#", "/edit/", "/app/lens#", "/app/visualize#",
                 "/app/maps#", "/app/discover#" }
      hits == { i \in 1..Len(href.str) :
                  /\ href.str[i] = "/edit/"
                  /\ CaptureFrom(href.str, i + 1, stops) # << >> }
  IN IF hits = {} THEN Null
     ELSE Str(CaptureFrom(href.str, Min(hits) + 1, stops))

\* the type an edit link's href names
EditLinkType(href) ==
  IF Includes(href, "/lens") THEN S("lens")
  ELSE IF Includes(href, "/visualize") THEN S("visualization")
  ELSE IF Includes(href, "/maps") THEN S("map")
  ELSE IF Includes(href, "/discover") THEN S("search")
  ELSE Null

\* Method 3: the first edit link whose href matches gives id and type
RECURSIVE EditLinkIdentity(_)
EditLinkIdentity(links) ==
  IF links = << >> THEN [id |-> Null, type |-> Null]
  ELSE IF Truthy(EditLinkMatch(Head(links)))
    THEN [id |-> EditLinkMatch(Head(links)), type |-> EditLinkType(Head(links))]
  ELSE EditLinkIdentity(Tail(links))

\* the keyword cascade that names the type when no method did
InferredType(panel) ==
  LET panelAttrs ==
        Str(OrElse(panel.testSubj, Str(<< >>)).str
              \o OrElse(panel.className, Str(<< >>)).str)
  IN IF Includes(panelAttrs, "lens") \/ "lnsvis" \in panel.innerHTML
       THEN S("lens")
     ELSE IF Includes(panelAttrs, "map") \/ "mapcontainer" \in panel.innerHTML
       THEN S("map")
     ELSE IF Includes(panelAttrs, "search") \/ Includes(panelAttrs, "discover")
       THEN S("search")
     ELSE IF Includes(panelAttrs, "vis") \/ "visualization" \in panel.innerHTML
       THEN S("visualization")
     ELSE S("lens")

\* extractPanelInfo(panel): the panel info, or Null for a container that
\* yields neither a title nor an id
extractPanelInfo(panel) ==
  LET title == FirstTruthy(panel.titleTexts)
      id1 == FirstTruthy(panel.dataAttrs)
      id2 == IF ~Truthy(id1)
               THEN FirstTruthy([i \in 1..Len(panel.childData) |->
                                   FirstTruthy(panel.childData[i])])
               ELSE id1
      link == IF ~Truthy(id2)
                THEN EditLinkIdentity(panel.editLinks)
                ELSE [id |-> id2, type |-> Null]
      id3 == IF ~Truthy(id2) THEN link.id ELSE id2
      type3 == link.type
      type4 == IF ~Truthy(id3) /\ panel.lensContainer THEN S("lens") ELSE type3
      visId == IF panel.visContainer = Null THEN Null
               ELSE OrElse(panel.visContainer.renderCompleteId,
                           panel.visContainer.embeddableId)
      id4 == IF ~Truthy(id3) /\ Truthy(visId) THEN visId ELSE id3
      id5 == IF ~Truthy(id4)
               THEN FirstTruthy([i \in 1..Len(panel.attrValues) |->
                                   UuidMatch(panel.attrValues[i])])
               ELSE id4
      type == IF ~Truthy(type4) THEN InferredType(panel) ELSE type4
  IN IF Truthy(title) \/ Truthy(id5)
       THEN [ kind |-> "object",
              type |-> type,
              id |-> OrElse(id5, Null),
              title |-> OrElse(title, S("Untitled Panel")) ]
       ELSE Null

\* how many selector strategies detectEmbeddedPanels tries
DetectSelectors == 4

\* the elements the first matching selector of detectEmbeddedPanels finds
DetectedElements(page) ==
  IF page.selector <= DetectSelectors THEN page.elements ELSE << >>

\* the infos up to the first container that yields none
RECURSIVE PanelInfos_untilFirstMiss(_)
PanelInfos_untilFirstMiss(elements) ==
  IF elements = << >> THEN << >>
  ELSE LET panelInfo == extractPanelInfo(Head(elements))
       IN IF panelInfo # Null
            THEN << [ info |-> panelInfo,
                      position |-> [ top |-> Head(elements).rect.top,
                                     left |-> Head(elements).rect.left ] ] >>
                   \o PanelInfos_untilFirstMiss(Tail(elements))
            ELSE << >>

\* the infos of the containers that yield one, each with its position
RECURSIVE PanelInfos(_)
PanelInfos(elements) ==
  IF elements = << >> THEN << >>
  ELSE LET panelInfo == extractPanelInfo(Head(elements))
       IN IF panelInfo # Null
            THEN << [ info |-> panelInfo,
                      position |-> [ top |-> Head(elements).rect.top,
                                     left |-> Head(elements).rect.left ] ] >>
                   \o PanelInfos(Tail(elements))
            ELSE PanelInfos(Tail(elements))

\* detectEmbeddedPanels(): the infos sorted by position, positions removed
detectEmbeddedPanels(page) ==
  LET panels == ArraySort("position", PanelInfos(DetectedElements(page)))
  IN [i \in 1..Len(panels) |-> panels[i].info]

-----------------------------------------------------------------------------
(* Record synthesizer and single-panel export: constructPanelExport,       *)
(* exportEmbeddedPanel                                                     *)

\* The value JSON text carries: of an object the properties that are not
\* undefined, of an array undefined elements as null.
RECURSIVE JsonValue(_)
JsonValue(v) ==
  IF v.kind = "object"
    THEN [ f \in { g \in DOMAIN v : g = "kind" \/ v[g].kind # "undefined" } |->
             IF f = "kind" THEN "object" ELSE JsonValue(v[f]) ]
  ELSE IF v.kind = "array"
    THEN Array([ i \in 1..Len(v.items) |->
                   IF v.items[i].kind = "undefined"
                     THEN Null ELSE JsonValue(v.items[i]) ])
  ELSE v

\* typeof v === 'string'
IsString(v) == v.kind = "string"

\* { title: title, ...attributes }: the own properties of attributes
\* replace the ones written before the spread
SpreadOver(title, attributes) ==
  LET own == { f \in DOMAIN attributes :
                 f # "kind" /\ attributes[f].kind # "undefined" }
  IN [ f \in { "kind", "title" } \cup own |->
         IF f = "kind" THEN "object"
         ELSE IF f \in own THEN attributes[f]
         ELSE title ]

\* The id that ignores the harvested panelIndex.
PanelId_alwaysFresh(panel, uuid) == uuid

\* const panelId = panel.panelIndex || crypto.randomUUID()
PanelId(panel, uuid) == OrElse(Get(panel, "panelIndex"), uuid)

\* The lens state left as the nested structure.
LensState_nested(attributes) ==
  JsonValue(OrElse(Get(attributes, "state"), EmptyObject))

\* const state = attributes.state || {}; state: JSON.stringify(state)
LensState(attributes) ==
  JSONStringify(JsonValue(OrElse(Get(attributes, "state"), EmptyObject)))

\* the savedObject that constructPanelExport builds for a panel; now is
\* new Date().toISOString() and uuid is crypto.randomUUID()
SavedObjectOf(panel, now, uuid) ==
  LET panelType == Get(panel, "type")
      embeddableConfig == OrElse(Get(panel, "embeddableConfig"), EmptyObject)
      title == extractPanelTitle(panel)
      panelId == PanelId(panel, uuid)
      attributes == OrElse(Get(embeddableConfig, "attributes"), EmptyObject)
      savedVis == OrElse(Get(embeddableConfig, "savedVis"), EmptyObject)
      JsonOrString(v, default) ==
        IF IsString(v) THEN v ELSE JSONStringify(JsonValue(OrElse(v, default)))
  IN IF panelType = S("lens") THEN
       [ kind |-> "object",
         attributes |->
           [ kind |-> "object",
             title |-> title,
             description |-> OrElse(Get(attributes, "description"), Str(<< >>)),
             visualizationType |->
               OrElse(Get(attributes, "visualizationType"), S("lnsXY")),
             state |-> LensState(attributes) ],
         type |-> S("lens"),
         id |-> panelId,
         managed |-> Bool(FALSE),
         references |-> OrElse(Get(attributes, "references"), Array(<< >>)),
         coreMigrationVersion |-> S("8.8.0"),
         typeMigrationVersion |-> S("8.9.0"),
         created_at |-> now,
         updated_at |-> now ]
     ELSE IF panelType = S("visualization") THEN
       [ kind |-> "object",
         attributes |->
           [ kind |-> "object",
             title |-> title,
             visState |->
               JSONStringify(JsonValue(
                 [ kind |-> "object",
                   type |-> OrElse(Get(savedVis, "type"), S("markdown")),
                   params |-> OrElse(Get(savedVis, "params"), EmptyObject),
                   aggs |-> OrElse(Get(Get(savedVis, "data"), "aggs"), Array(<< >>)),
                   title |-> title ])),
             uiStateJSON |->
               JSONStringify(JsonValue(OrElse(Get(savedVis, "uiState"), EmptyObject))),
             description |-> OrElse(Get(savedVis, "description"), Str(<< >>)),
             version |-> Num(1),
             kibanaSavedObjectMeta |->
               [ kind |-> "object",
                 searchSourceJSON |->
                   JSONStringify(JsonValue(
                     OrElse(Get(Get(savedVis, "data"), "searchSource"),
                            [ kind |-> "object",
                              query |-> [ kind |-> "object",
                                          language |-> S("kuery"),
                                          query |-> Str(<< >>) ],
                              filter |-> Array(<< >>) ]))) ] ],
         type |-> S("visualization"),
         id |-> panelId,
         managed |-> Bool(FALSE),
         references |-> Array(<< >>),
         coreMigrationVersion |-> S("8.8.0"),
         typeMigrationVersion |-> S("8.5.0"),
         created_at |-> now,
         updated_at |-> now ]
     ELSE IF panelType = S("map") THEN
       [ kind |-> "object",
         attributes |->
           [ kind |-> "object",
             title |-> title,
             description |-> OrElse(Get(attributes, "description"), Str(<< >>)),
             layerListJSON |->
               JsonOrString(Get(attributes, "layerListJSON"), Array(<< >>)),
             mapStateJSON |->
               JsonOrString(Get(attributes, "mapStateJSON"), EmptyObject),
             uiStateJSON |->
               JsonOrString(Get(attributes, "uiStateJSON"), EmptyObject) ],
         type |-> S("map"),
         id |-> panelId,
         managed |-> Bool(FALSE),
         references |-> OrElse(Get(attributes, "references"), Array(<< >>)),
         coreMigrationVersion |-> S("8.8.0"),
         created_at |-> now,
         updated_at |-> now ]
     ELSE IF panelType = S("search") THEN
       [ kind |-> "object",
         attributes |->
           [ kind |-> "object",
             title |-> title,
             description |-> OrElse(Get(attributes, "description"), Str(<< >>)),
             columns |-> OrElse(Get(attributes, "columns"), Array(<< >>)),
             sort |-> OrElse(Get(attributes, "sort"), Array(<< >>)),
             kibanaSavedObjectMeta |->
               OrElse(Get(attributes, "kibanaSavedObjectMeta"),
                      [ kind |-> "object",
                        searchSourceJSON |-> JSONStringify(EmptyObject) ]) ],
         type |-> S("search"),
         id |-> panelId,
         managed |-> Bool(FALSE),
         references |-> OrElse(Get(attributes, "references"), Array(<< >>)),
         coreMigrationVersion |-> S("8.8.0"),
         created_at |-> now,
         updated_at |-> now ]
     ELSE
       [ kind |-> "object",
         attributes |-> SpreadOver(title, attributes),
         type |-> panelType,
         id |-> panelId,
         managed |-> Bool(FALSE),
         references |-> OrElse(Get(attributes, "references"), Array(<< >>)),
         coreMigrationVersion |-> S("8.8.0"),
         created_at |-> now,
         updated_at |-> now ]

\* The summary that counts no exported object.
ExportSummary_nothingExported ==
  [ kind |-> "object",
    excludedObjects |-> Array(<< >>),
    excludedObjectsCount |-> Num(0),
    exportedCount |-> Num(0),
    missingRefCount |-> Num(0),
    missingReferences |-> Array(<< >>) ]

\* the exportSummary of constructPanelExport
ExportSummary ==
  [ kind |-> "object",
    excludedObjects |-> Array(<< >>),
    excludedObjectsCount |-> Num(0),
    exportedCount |-> Num(1),
    missingRefCount |-> Num(0),
    missingReferences |-> Array(<< >>) ]

\* text made of JSON texts joined by '\n'
JoinedLines(texts) == [kind |-> "string", lines |-> texts]

\* constructPanelExport(panel, dashboardTitle)
constructPanelExport(panel, dashboardTitle, now, uuid) ==
  JoinedLines(<< JSONStringify(JsonValue(SavedObjectOf(panel, now, uuid))),
                 JSONStringify(JsonValue(ExportSummary)) >>)

\* the text of the numbers 0 to 9
DecimalDigits == << "0", "1", "2", "3", "4", "5", "6", "7", "8", "9" >>

\* template-literal text of a value: `${v}`
TemplateText(v) ==
  CASE v.kind = "string" /\ "str" \in DOMAIN v -> v.str
    [] v.kind = "undefined" -> << "undefined" >>
    [] v.kind = "null"      -> << "null" >>
    [] v.kind = "number"    -> << DecimalDigits[v.num + 1] >>
    [] v.kind = "boolean"   -> << IF v.bool THEN "true" ELSE "false" >>
    [] OTHER                -> << "[object Object]" >>

\* The lookup that settles for the first panel when none has the index.
FindPanel_firstWhenAbsent(panels, panelIndex) ==
  LET hits == { i \in 1..Len(panels) : Get(panels[i], "panelIndex") = panelIndex }
  IN IF panels = << >> THEN Undefined
     ELSE IF hits = {} THEN panels[1] ELSE panels[Min(hits)]

\* panels.find(p => p.panelIndex === panelIndex): the first such panel,
\* Undefined when there is none
FindPanel(panels, panelIndex) ==
  LET hits == { i \in 1..Len(panels) : Get(panels[i], "panelIndex") = panelIndex }
  IN IF hits = {} THEN Undefined ELSE panels[Min(hits)]

\* exportEmbeddedPanel(dashboardId, panelIndex) when the backend answers
\* resp: returns the export text or throws.
exportEmbeddedPanel(panelIndex, resp, now, uuid) ==
  LET fetched == fetchDashboardData(resp)
  IN IF ~fetched.ok THEN fetched
     ELSE IF fetched.value.kind \in { "null", "undefined" }
       THEN Throw(<< "TypeError: Cannot read properties of null" >>)
     ELSE LET panelsJSON == Get(Get(fetched.value, "attributes"), "panelsJSON")
          IN IF ~Truthy(panelsJSON) THEN Throw(<< "Dashboard has no panels" >>)
             ELSE LET parsed == JSONParse(panelsJSON)
                  IN IF ~parsed.ok THEN parsed
                     ELSE IF parsed.value.kind # "array"
                       THEN Throw(<< "TypeError: panels.find is not a function" >>)
                     ELSE LET panel == FindPanel(parsed.value.items, panelIndex)
                          IN IF ~Truthy(panel)
                               THEN Throw(<< "Panel " >> \o TemplateText(panelIndex)
                                            \o << " not found in dashboard" >>)
                               ELSE Return(constructPanelExport(
                                      panel,
                                      OrElse(Get(Get(fetched.value, "attributes"), "title"),
                                             S("Dashboard")),
                                      now, uuid))

-----------------------------------------------------------------------------
(* Export router: exportSavedObject, exportViaAlternativeApi and the       *)
(* exportSavedObject branch of the message listener; the download          *)
(* collaborator of the background worker                                   *)

\* The message with the response body left out.
ExportFailedMessage_withoutBody(resp) ==
  << "Export failed: ", resp.status, " ", resp.statusText >>

\* `Export failed: ${response.status} ${response.statusText} - ${errorText}`
ExportFailedMessage(resp) ==
  << "Export failed: ", resp.status, " ", resp.statusText, " - " >>
    \o TemplateText(resp.body)

\* exportSavedObject(type, id) when the backend answers resp
exportSavedObject(resp) ==
  IF resp.kind = "rejected" THEN Throw(<< "Failed to fetch" >>)
  ELSE IF ~resp.ok THEN Throw(ExportFailedMessage(resp))
  ELSE Return(resp.body)

\* JSON.stringify(data, null, 2)
JSONStringifyIndented(v) == [kind |-> "string", json |-> v, indent |-> 2]

\* exportViaAlternativeApi(type, id) when the backend answers resp
exportViaAlternativeApi(type, resp) ==
  IF ~IsAlternativeApiType(type)
    THEN Throw(<< "No alternative API configured for type: " >> \o TemplateText(type))
  ELSE IF resp.kind = "rejected" THEN Throw(<< "Failed to fetch" >>)
  ELSE IF ~resp.ok THEN Throw(ExportFailedMessage(resp))
  ELSE LET data == JSONParse(resp.body)
       IN IF ~data.ok THEN data
          ELSE Return(JSONStringifyIndented(JsonValue(data.value)))

\* the request paths, after getKibanaBaseUrl()
DashboardPath(dashboardId) ==
  Str(<< "/api/saved_objects/dashboard/" >> \o TemplateText(dashboardId))

ExportPath == S("/api/saved_objects/_export")

\* ALTERNATIVE_API_TYPES[type].apiPath(id)
AlternativeApiPath(type, id) ==
  IF type = S("slo")
    THEN Str(<< "/api/observability/slos/" >> \o TemplateText(id))
    ELSE Str(<< "/api/alerting/rule/" >> \o TemplateText(id))

HttpCall(method, path, body) == [method |-> method, path |-> path, body |-> body]

\* the body of the bulk export request
ExportBody(type, id) ==
  JSONStringify(JsonValue(
    [ kind |-> "object",
      objects |-> Array(<< [kind |-> "object", type |-> type, id |-> id] >>),
      includeReferencesDeep |-> Bool(TRUE) ]))

\* The branches with the id test moved before the alternate-API test.
ExportBranch_idBeforeAlternative(req) ==
  IF Truthy(req.isEmbedded) /\ Truthy(req.dashboardId) /\ Truthy(req.panelIndex)
    THEN "embedded"
  ELSE IF Truthy(req.id) THEN "bulk"
  ELSE IF Truthy(req.useAlternativeApi) /\ IsAlternativeApiType(req.type)
    THEN "alternative"
  ELSE "invalid"

\* the if / else-if chain of the exportSavedObject handler
ExportBranch(req) ==
  IF Truthy(req.isEmbedded) /\ Truthy(req.dashboardId) /\ Truthy(req.panelIndex)
    THEN "embedded"
  ELSE IF Truthy(req.useAlternativeApi) /\ IsAlternativeApiType(req.type)
    THEN "alternative"
  ELSE IF Truthy(req.id) THEN "bulk"
  ELSE "invalid"

\* the backend call the chosen branch starts with
FirstCall(req) ==
  CASE ExportBranch(req) = "embedded" ->
         HttpCall("GET", DashboardPath(req.dashboardId), Undefined)
    [] ExportBranch(req) = "alternative" ->
         HttpCall("GET", AlternativeApiPath(req.type, req.id), Undefined)
    [] ExportBranch(req) = "bulk" ->
         HttpCall("POST", ExportPath, ExportBody(req.type, req.id))

\* sendResponse({ success: false, error: error.message })
Failure(error) == [kind |-> "object", success |-> Bool(FALSE), error |-> error]

\* the downloadFile message
DownloadMessage(req, text, fileExtension) ==
  [ kind |-> "object",
    action |-> S("downloadFile"),
    content |-> text,
    title |-> req.title,
    type |-> req.type,
    fileExtension |-> fileExtension ]

\* sanitizeFilename(name), for names shorter than the 200 characters kept:
\* invalid characters and white space become dashes, runs of dashes one
\* dash, a leading and a trailing dash are removed
RECURSIVE CollapseDashes(_)
CollapseDashes(s) ==
  IF Len(s) < 2 THEN s
  ELSE IF s[1] = "-" /\ s[2] = "-" THEN CollapseDashes(Tail(s))
  ELSE << s[1] >> \o CollapseDashes(Tail(s))

sanitizeFilename(name) ==
  LET invalid == { "<", ">", ":", "\"", "/", "\\", "|", "?", "*", " " }
      dashed == [i \in 1..Len(name) |-> IF name[i] \in invalid THEN "-" ELSE name[i]]
      collapsed == CollapseDashes(dashed)
      headless == IF collapsed # << >> /\ Head(collapsed) = "-"
                    THEN Tail(collapsed) ELSE collapsed
  IN IF headless # << >> /\ headless[Len(headless)] = "-"
       THEN SubSeq(headless, 1, Len(headless) - 1)
       ELSE headless

\* generateFilename(title, type, extension)
generateFilename(title, type, extension) ==
  Str(sanitizeFilename(OrElse(title, S("untitled")).str)
        \o << "-" >> \o TemplateText(type) \o << "." >> \o TemplateText(extension))

\* the background listener's answer to a downloadFile message, when the
\* download is saved and when chrome.downloads.download rejects
DownloadSaved(message) ==
  [ kind |-> "object",
    success |-> Bool(TRUE),
    filename |-> generateFilename(message.title, message.type,
                   IF message.fileExtension = Undefined
                     THEN S("ndjson") ELSE message.fileExtension) ]

DownloadFailed == Failure(S("Download canceled by the user"))

-----------------------------------------------------------------------------
(* Resource aggregator: getAllResources and its message listener           *)

\* The try / catch of getAllResources with the catch block left empty.
PanelsOrFallback_noFallback(dashboardId, resp, page) ==
  LET outcome == getEmbeddedPanelsFromAPI(dashboardId, resp)
  IN IF outcome.ok
       THEN [panels |-> outcome.value, domRuns |-> 0]
       ELSE [panels |-> << >>, domRuns |-> 0]

\* The try / catch of getAllResources: the panels pushed to resources and
\* how many times detectEmbeddedPanels ran.
PanelsOrFallback(dashboardId, resp, page) ==
  LET outcome == getEmbeddedPanelsFromAPI(dashboardId, resp)
  IN IF outcome.ok
       THEN [panels |-> outcome.value, domRuns |-> 0]
       ELSE [panels |-> detectEmbeddedPanels(page), domRuns |-> 1]

\* sendResponse({ resources })
ScanResponse(list) == [kind |-> "object", resources |-> Array(list)]

\* getAllResources up to its await: the primary resource is pushed, and on
\* a URL of the dashboards application with an id the parent is fetched;
\* otherwise the list is returned and answered at once.
ScanStart ==
  /\ scanPc = "idle"
  /\ LET mainResource == detectSavedObject(url)
         pushed == IF Truthy(mainResource) THEN << mainResource >> ELSE << >>
     IN /\ resources' = pushed
        /\ IF IncludesDashboards(url) /\ Truthy(Get(mainResource, "id"))
             THEN /\ calls' = Append(calls,
                        HttpCall("GET", DashboardPath(mainResource.id), Undefined))
                  /\ scanPc' = "awaitPanels"
                  /\ responses' = responses
             ELSE /\ calls' = calls
                  /\ scanPc' = "done"
                  /\ responses' = Append(responses, ScanResponse(pushed))
  /\ UNCHANGED << pageVars, windowVars, loggerVars, listenerVars, popupVars, runVars, reply, domRuns, request, pc, branch,
                  content, downloads >>

\* getAllResources from its await on: the harvested panels, or after a
\* throw the DOM panels, are pushed; the list is returned and answered.
ScanResume ==
  /\ scanPc = "awaitPanels"
  /\ \E got \in { PanelsOrFallback(detectSavedObject(url).id, dashResponse, dom) } :
       /\ resources' = resources \o got.panels
       /\ domRuns' = domRuns + got.domRuns
       /\ responses' = Append(responses, ScanResponse(resources \o got.panels))
  /\ scanPc' = "done"
  /\ UNCHANGED << pageVars, windowVars, loggerVars, listenerVars, popupVars, runVars, reply, request, pc, branch, calls,
                  content, downloads >>

-----------------------------------------------------------------------------
(* The exportSavedObject branch of the message listener, step by step      *)

\* The end of the try block and the catch block: content that was produced
\* is sent to the background worker as a downloadFile message; a throw is
\* answered with { success: false, error: error.message }.
Deliver(outcome, fileExtension) ==
  IF outcome.ok
    THEN /\ content' = outcome.value
         /\ downloads' = Append(downloads,
                           DownloadMessage(request, outcome.value, fileExtension))
         /\ responses' = responses
         /\ pc' = "awaitDownload"
    ELSE /\ content' = content
         /\ downloads' = downloads
         /\ responses' = Append(responses, Failure(outcome.error))
         /\ pc' = "done"

\* The listener receives an exportSavedObject request and runs up to the
\* first await: the branch is chosen and its backend call issued, or the
\* request is rejected.
ExportReceive(req) ==
  /\ pc = "idle"
  /\ request' = req
  /\ branch' = ExportBranch(req)
  /\ IF ExportBranch(req) = "invalid"
       THEN /\ calls' = calls
            /\ responses' =
                 Append(responses, Failure(S("No valid export target specified")))
            /\ pc' = "done"
       ELSE /\ calls' = Append(calls, FirstCall(req))
            /\ responses' = responses
            /\ pc' = "await" \o ExportBranch(req)
  /\ UNCHANGED << pageVars, windowVars, loggerVars, listenerVars, popupVars, runVars, reply, scanPc, resources, domRuns,
                  content, downloads >>

\* content = await exportEmbeddedPanel(dashboardId, panelIndex)
ExportEmbeddedResume(now, uuid) ==
  /\ pc = "awaitembedded"
  /\ Deliver(exportEmbeddedPanel(request.panelIndex, dashResponse, now, uuid),
             S("ndjson"))
  /\ UNCHANGED << pageVars, windowVars, loggerVars, listenerVars, popupVars, runVars, reply, scanPc, resources, domRuns,
                  request, branch, calls >>

\* content = await exportViaAlternativeApi(type, id);
\* fileExtension = ALTERNATIVE_API_TYPES[type].fileExtension || 'json'
ExportAlternativeResume(resp) ==
  /\ pc = "awaitalternative"
  /\ reply' = resp
  /\ Deliver(exportViaAlternativeApi(request.type, resp),
             OrElse(AltFileExtension(request.type), S("json")))
  /\ UNCHANGED << pageVars, windowVars, loggerVars, listenerVars, popupVars, runVars, scanPc, resources, domRuns, request,
                  branch, calls >>

\* The bulk branch with a second try: a call that failed is issued once more.
ExportBulkResume_retry(resp) ==
  /\ pc = "awaitbulk"
  /\ reply' = resp
  /\ IF ~exportSavedObject(resp).ok /\ Len(calls) < 2
       THEN /\ calls' = Append(calls, calls[Len(calls)])
            /\ UNCHANGED << content, downloads, responses, pc >>
       ELSE /\ Deliver(exportSavedObject(resp), S("ndjson"))
            /\ calls' = calls
  /\ UNCHANGED << pageVars, windowVars, loggerVars, listenerVars, popupVars, runVars, scanPc,
                  resources, domRuns, request, branch >>

\* content = await exportSavedObject(type, id)
ExportBulkResume(resp) ==
  /\ pc = "awaitbulk"
  /\ reply' = resp
  /\ Deliver(exportSavedObject(resp), S("ndjson"))
  /\ UNCHANGED << pageVars, windowVars, loggerVars, listenerVars, popupVars, runVars, scanPc, resources, domRuns, request,
                  branch, calls >>

\* const downloadResponse = await chrome.runtime.sendMessage(...);
\* sendResponse(downloadResponse): the background worker saved the file,
\* failed to, or could not be reached (sendMessage rejects).
ExportDownloadReply(outcome) ==
  /\ pc = "awaitDownload"
  /\ responses' = Append(responses,
       CASE outcome = "saved"  -> DownloadSaved(downloads[Len(downloads)])
         [] outcome = "failed" -> DownloadFailed
         [] outcome = "unreachable" ->
              Failure(S("Could not establish connection. Receiving end does not exist.")))
  /\ pc' = "done"
  /\ UNCHANGED << pageVars, windowVars, loggerVars, listenerVars, popupVars, runVars, reply, scanPc, resources, domRuns,
                  request, branch, calls, content, downloads >>

-----------------------------------------------------------------------------
(* The other branches of the message listener: highlightPanel,             *)
(* unhighlightPanel, getSavedObjectInfo, and a message of no known action  *)

\* how many selector strategies highlightPanel tries
HighlightSelectors == 5

\* panelElements of highlightPanel after its sort: the elements of the
\* first matching selector in the order of their position
SortedPanelElements(page) ==
  LET found == IF page.selector <= HighlightSelectors THEN page.elements ELSE << >>
      placed == [ i \in 1..Len(found) |->
                    [ element |-> found[i],
                      position |-> [ top |-> found[i].rect.top,
                                     left |-> found[i].rect.left ] ] ]
  IN ArraySort("position", placed)

\* highlightPanel(panelIndex, resourceIndex): the highlight it leaves. The
\* old highlight is removed first; resource index 0 is the dashboard, so
\* container resourceIndex - 1 is taken when there is one.
highlightPanel(page, resourceIndex) ==
  LET panelElements == SortedPanelElements(page)
      panelElementIndex ==
        IF resourceIndex.kind = "number" THEN resourceIndex.num - 1 ELSE -1
  IN IF /\ Len(panelElements) # 0
        /\ panelElementIndex >= 0
        /\ panelElementIndex < Len(panelElements)
       THEN [ element |-> panelElements[panelElementIndex + 1].element,
              overlay |-> panelElements[panelElementIndex + 1].position ]
       ELSE [ element |-> Null, overlay |-> Null ]

\* what sendResponse is called with when a message is dispatched: every
\* listener registered on runtime.onMessage handles it and answers
Answers(response) == [i \in 1..messageListeners |-> response]

\* sendResponse({ success: true })
Success == [kind |-> "object", success |-> Bool(TRUE)]

\* unhighlightPanel() with the overlay forgotten but left on the page
unhighlightPanel_forgetting ==
  [ element |-> Null, overlay |-> Null, overlays |-> overlays ]

\* unhighlightPanel(): the highlight state it leaves. An overlay held in
\* the slot is removed from the page; both slots are emptied.
unhighlightPanel ==
  [ element |-> Null,
    overlay |-> Null,
    overlays |-> IF highlightOverlay # Null THEN overlays - 1 ELSE overlays ]

\* The highlightPanel branch: the old highlight is removed, the panel is
\* highlighted, its overlay appended to the body, and the message answered
\* before the listener returns.
HighlightPanel(req) ==
  /\ handled' = req
  /\ \E cleared \in { unhighlightPanel } :
       \E left \in { highlightPanel(dom, Get(req, "index")) } :
         /\ highlightedElement' = left.element
         /\ highlightOverlay' = left.overlay
         /\ overlays' = cleared.overlays + (IF left.overlay # Null THEN 1 ELSE 0)
  /\ responses' = responses \o Answers(Success)
  /\ UNCHANGED << pageVars, loggerVars, runVars, popupVars, scrollY, injections, loaded,
                  messageListeners, positionListeners, scanPc, resources,
                  domRuns, request, pc, branch, calls, reply, content,
                  downloads >>

\* The unhighlightPanel branch: the highlight is removed and the message
\* answered before the listener returns.
UnhighlightPanel(req) ==
  /\ handled' = req
  /\ \E cleared \in { unhighlightPanel } :
       /\ highlightedElement' = cleared.element
       /\ highlightOverlay' = cleared.overlay
       /\ overlays' = cleared.overlays
  /\ responses' = responses \o Answers(Success)
  /\ UNCHANGED << pageVars, loggerVars, runVars, popupVars, scrollY, injections, loaded,
                  messageListeners, positionListeners, scanPc, resources,
                  domRuns, request, pc, branch, calls, reply, content,
                  downloads >>

\* getBoundingClientRect() of an element after the document moved up by
\* delta: rects are relative to the viewport
Moved(element, delta) ==
  [element EXCEPT !.rect = [top |-> element.rect.top - delta,
                            left |-> element.rect.left]]

\* updateHighlightPosition(): the overlay it leaves. With both slots
\* filled the overlay takes the element's current rect.
updateHighlightPosition(element, overlay) ==
  IF element # Null /\ overlay # Null
    THEN [top |-> element.rect.top, left |-> element.rect.left]
    ELSE overlay

\* A scroll or resize event that leaves the document scrolled to `to`: the
\* containers and the highlighted element, which is one of them, have
\* moved, and every registered listener runs updateHighlightPosition.
ViewportChange(to) ==
  /\ to # scrollY
  /\ scrollY' = to
  /\ \E delta \in { to - scrollY } :
       /\ dom' = [dom EXCEPT !.elements =
                    [i \in 1..Len(dom.elements) |-> Moved(dom.elements[i], delta)]]
       /\ \E element \in { IF highlightedElement = Null THEN Null
                            ELSE Moved(highlightedElement, delta) } :
            /\ highlightedElement' = element
            /\ highlightOverlay' =
                 IF positionListeners > 0
                   THEN updateHighlightPosition(element, highlightOverlay)
                   ELSE highlightOverlay
  /\ UNCHANGED << url, dashResponse, loggerVars, runVars, popupVars, handled,
                  overlays, injections, loaded, messageListeners, positionListeners,
                  scanPc, resources, domRuns, request, pc, branch, calls,
                  reply, content, downloads, responses >>

\* A message whose action none of the branches tests for: the listener
\* falls through to its final `return true` and sendResponse is not called.
FallThrough(req) ==
  /\ handled' = req
  /\ UNCHANGED << pageVars, windowVars, loggerVars, runVars, popupVars, highlightedElement,
                  highlightOverlay, scanPc, resources, domRuns, request, pc,
                  branch, calls, reply, content, downloads, responses >>

\* getKibanaBaseUrl(): protocol and host of the page, which the URL of the
\* model, starting at the path, leaves out
KibanaBaseUrl == S("https://kibana.example")

\* Math.max(0, resources.length - 1)
AdditionalResourceCount(list) ==
  IF Len(list) - 1 > 0 THEN Len(list) - 1 ELSE 0

\* sendResponse({ savedObject, baseUrl, isKibanaPage, additionalResourceCount })
InfoResponse(savedObject, additionalResourceCount) ==
  [ kind |-> "object",
    savedObject |-> savedObject,
    baseUrl |-> KibanaBaseUrl,
    isKibanaPage |-> Bool(savedObject # Null),
    additionalResourceCount |-> Num(additionalResourceCount) ]

\* The getSavedObjectInfo branch up to its await: off the dashboards
\* application, or with nothing detected, it answers at once with a count
\* of 0; otherwise getAllResources runs, which pushes the primary resource
\* and awaits the parent document.
InfoStart ==
  /\ scanPc = "idle"
  /\ LET savedObject == detectSavedObject(url)
         pushed == IF Truthy(savedObject) THEN << savedObject >> ELSE << >>
     IN IF Truthy(savedObject) /\ IncludesDashboards(url)
          THEN /\ resources' = pushed
               /\ IF Truthy(Get(savedObject, "id"))
                    THEN /\ calls' = Append(calls,
                              HttpCall("GET", DashboardPath(savedObject.id), Undefined))
                         /\ scanPc' = "infoAwaitPanels"
                         /\ responses' = responses
                    ELSE /\ calls' = calls
                         /\ scanPc' = "done"
                         /\ responses' = Append(responses,
                              InfoResponse(savedObject, AdditionalResourceCount(pushed)))
          ELSE /\ resources' = resources
               /\ calls' = calls
               /\ scanPc' = "done"
               /\ responses' = Append(responses, InfoResponse(savedObject, 0))
  /\ UNCHANGED << pageVars, windowVars, loggerVars, listenerVars, popupVars, runVars, reply, domRuns,
                  request, pc, branch, content, downloads >>

\* The getSavedObjectInfo branch from its await on: getAllResources pushes
\* the harvested panels, or after a throw the DOM panels, and the message
\* is answered with one less than the length of the list.
InfoResume ==
  /\ scanPc = "infoAwaitPanels"
  /\ \E savedObject \in { detectSavedObject(url) } :
       \E got \in { PanelsOrFallback(savedObject.id, dashResponse, dom) } :
         /\ resources' = resources \o got.panels
         /\ domRuns' = domRuns + got.domRuns
         /\ responses' = Append(responses,
              InfoResponse(savedObject,
                           AdditionalResourceCount(resources \o got.panels)))
  /\ scanPc' = "done"
  /\ UNCHANGED << pageVars, windowVars, loggerVars, listenerVars, popupVars, runVars, reply, request,
                  pc, branch, calls, content, downloads >>

-----------------------------------------------------------------------------
(* The popup: showState, getSavedObjectInfo, exportSavedObject and          *)
(* retryExport. The export button is taken to belong to the 'detected'     *)
(* view and the retry button to the 'error' view.                          *)

\* the keys of `states`
StateNames ==
  { "loading", "notDetected", "notExportable", "detected", "exporting",
    "success", "error" }

\* showState with the hiding of the other states left out
showState_keepingOthers(stateName) == visible \cup { stateName }

\* showState(stateName): the states left without the class 'hidden'
showState(stateName) == { name \in StateNames : name = stateName }

\* getSavedObjectInfo() of the popup up to its sendMessage: without an
\* active tab, or when the content script cannot be injected, the popup
\* shows 'notDetected'; otherwise the getSavedObjectInfo message is sent.
PopupQuery(outcome) ==
  /\ popupPc = "getSavedObjectInfo:tab"
  /\ CASE outcome = "noTab" ->
            /\ currentTabId' = currentTabId
            /\ visible' = showState("notDetected")
            /\ popupPc' = "getSavedObjectInfo:done"
       [] outcome = "notInjected" ->
            /\ currentTabId' = Num(1)
            /\ visible' = showState("notDetected")
            /\ popupPc' = "getSavedObjectInfo:done"
       [] outcome = "sent" ->
            /\ currentTabId' = Num(1)
            /\ visible' = visible
            /\ popupPc' = "getSavedObjectInfo:response"
  /\ UNCHANGED << pageVars, windowVars, loggerVars, listenerVars, runVars, currentSavedObject,
                  shownText, scanPc, resources, domRuns, request, pc, branch,
                  calls, reply, content, downloads, responses >>

\* getSavedObjectInfo() of the popup from the response on: a response with
\* a saved object shows 'notExportable' with the reason, or 'detected';
\* any other response shows 'notDetected'.
PopupInfoResponse ==
  /\ popupPc = "getSavedObjectInfo:response"
  /\ scanPc = "done"
  /\ LET response == responses[Len(responses)]
         savedObject == Get(response, "savedObject")
     IN IF Truthy(response) /\ Truthy(Get(response, "isKibanaPage"))
             /\ Truthy(savedObject)
          THEN /\ currentSavedObject' = savedObject
               /\ IF Truthy(Get(savedObject, "notExportable"))
                    THEN /\ shownText' =
                              [shownText EXCEPT !.neReason =
                                 OrElse(Get(savedObject, "notExportableReason"),
                                        S("This resource type cannot be exported."))]
                         /\ visible' = showState("notExportable")
                    ELSE /\ shownText' = shownText
                         /\ visible' = showState("detected")
          ELSE /\ currentSavedObject' = currentSavedObject
               /\ shownText' = shownText
               /\ visible' = showState("notDetected")
  /\ popupPc' = "getSavedObjectInfo:done"
  /\ UNCHANGED << pageVars, windowVars, loggerVars, listenerVars, runVars, currentTabId, scanPc,
                  resources, domRuns, request, pc, branch, calls, reply,
                  content, downloads, responses >>

\* getSavedObjectInfo() of the popup when sendMessage rejects because no
\* listener received the message: the catch shows 'notDetected'.
PopupInfoRejected ==
  /\ popupPc = "getSavedObjectInfo:response"
  /\ scanPc = "idle"
  /\ visible' = showState("notDetected")
  /\ popupPc' = "getSavedObjectInfo:done"
  /\ UNCHANGED << pageVars, windowVars, loggerVars, listenerVars, runVars, currentSavedObject,
                  currentTabId, shownText, scanPc, resources, domRuns,
                  request, pc, branch, calls, reply, content, downloads,
                  responses >>

\* the message exportSavedObject() of the popup sends; the fields it leaves
\* out read as undefined in the listener
PopupExportMessage(savedObject) ==
  [ kind |-> "object",
    action |-> S("exportSavedObject"),
    type |-> savedObject.type,
    id |-> savedObject.id,
    title |-> savedObject.title,
    panelIndex |-> Undefined,
    dashboardId |-> Undefined,
    isEmbedded |-> Undefined,
    useAlternativeApi |-> OrElse(Get(savedObject, "useAlternativeApi"), Bool(FALSE)) ]

\* A click on the export button: exportSavedObject() of the popup up to
\* its sendMessage. The popup is followed through one export.
PopupExport ==
  /\ "detected" \in visible
  /\ popupPc = "getSavedObjectInfo:done"
  /\ IF ~Truthy(currentSavedObject) \/ ~Truthy(currentTabId)
       THEN UNCHANGED << visible, popupPc >>
       ELSE /\ visible' = showState("exporting")
            /\ popupPc' = "exportSavedObject:response"
  /\ UNCHANGED << pageVars, windowVars, loggerVars, listenerVars, runVars, currentSavedObject,
                  currentTabId, shownText, scanPc, resources, domRuns,
                  request, pc, branch, calls, reply, content, downloads,
                  responses >>

\* exportSavedObject() of the popup from the response on: 'success' with
\* the file name, or 'error' with the error of the response.
PopupExportResponse ==
  /\ popupPc = "exportSavedObject:response"
  /\ pc = "done"
  /\ LET response == responses[Len(responses)]
     IN IF Truthy(Get(response, "success"))
          THEN /\ shownText' =
                    [shownText EXCEPT !.successFilename = Get(response, "filename")]
               /\ visible' = showState("success")
          ELSE /\ shownText' =
                    [shownText EXCEPT !.errorMessage =
                       OrElse(Get(response, "error"), S("Unknown error occurred"))]
               /\ visible' = showState("error")
  /\ popupPc' = "exportSavedObject:done"
  /\ UNCHANGED << pageVars, windowVars, loggerVars, listenerVars, runVars, currentSavedObject,
                  currentTabId, scanPc, resources, domRuns, request, pc,
                  branch, calls, reply, content, downloads, responses >>

\* exportSavedObject() of the popup when sendMessage rejects because no
\* listener received the message: the catch shows 'error'.
PopupExportRejected ==
  /\ popupPc = "exportSavedObject:response"
  /\ pc = "idle"
  /\ shownText' =
       [shownText EXCEPT !.errorMessage =
          OrElse(S("Could not establish connection. Receiving end does not exist."),
                 S("Failed to export resource"))]
  /\ visible' = showState("error")
  /\ popupPc' = "exportSavedObject:done"
  /\ UNCHANGED << pageVars, windowVars, loggerVars, listenerVars, runVars, currentSavedObject,
                  currentTabId, scanPc, resources, domRuns, request, pc,
                  branch, calls, reply, content, downloads, responses >>

\* A click on the retry button: retryExport().
retryExport ==
  /\ "error" \in visible
  /\ visible' = showState("detected")
  /\ UNCHANGED << pageVars, windowVars, loggerVars, listenerVars, runVars, popupPc,
                  currentSavedObject, currentTabId, shownText, scanPc,
                  resources, domRuns, request, pc, branch, calls, reply,
                  content, downloads, responses >>

-----------------------------------------------------------------------------
(* Classifier runs: the page URL is any string of at most MaxUrlLen tokens *)

UrlTokens == PrefixTokens \cup { DashboardsApp } \cup CharTokens

RECURSIVE StringsUpTo(_, _)
StringsUpTo(tokens, n) ==
  IF n = 0 THEN { << >> }
  ELSE LET shorter == StringsUpTo(tokens, n - 1)
       IN shorter \cup { Append(s, t) : s \in shorter, t \in tokens }

Pending == [kind |-> "pending"]

\* The scan and the export handler at rest.
ScanIdle ==
  /\ scanPc = "idle"
  /\ resources = << >>
  /\ domRuns = 0

\* No synthesizer run of its own.
SynthesizerIdle ==
  /\ panelConfig = Undefined
  /\ exported = Pending

\* No message handled by a branch without an await, nothing highlighted.
ListenerIdle ==
  /\ handled = Null
  /\ highlightedElement = Null
  /\ highlightOverlay = Null
  /\ overlays = 0

\* The popup is not open.
PopupClosed ==
  /\ popupPc = "closed"
  /\ visible = {}
  /\ currentSavedObject = Null
  /\ currentTabId = Null
  /\ shownText = [neReason |-> Str(<< >>), errorMessage |-> Str(<< >>),
                  successFilename |-> Str(<< >>)]

\* The content script has been injected once and nothing is highlighted
\* or scrolled.
WindowReady ==
  /\ scrollY = 0
  /\ injections = 1
  /\ loaded = TRUE
  /\ messageListeners = 1
  /\ positionListeners = 1

\* new Logger(): nothing read, nothing set, storage without the key.
LoggerIdle ==
  /\ debugEnabled = FALSE
  /\ initialized = FALSE
  /\ initPromise = "null"
  /\ initCalls = 0
  /\ storage = Undefined
  /\ storageReads = 0
  /\ inbox = << >>
  /\ lastSet = Null

ExportIdle ==
  /\ request = Null
  /\ pc = "idle"
  /\ branch = "none"
  /\ calls = << >>
  /\ reply = Undefined
  /\ content = Undefined
  /\ downloads = << >>
  /\ responses = << >>

InitClassify ==
  /\ url \in StringsUpTo(UrlTokens, MaxUrlLen)
  /\ dashResponse = Undefined
  /\ dom = << >>
  /\ detected = Pending
  /\ harvested = Pending
  /\ ScanIdle
  /\ WindowReady
  /\ LoggerIdle
  /\ ExportIdle
  /\ ListenerIdle
  /\ PopupClosed
  /\ SynthesizerIdle

\* const detected = detectSavedObject();
Classify ==
  /\ detected = Pending
  /\ detected' = detectSavedObject(url)
  /\ UNCHANGED << pageVars, windowVars, loggerVars, listenerVars, popupVars, panelConfig, exported, reply, harvested, scanPc,
                  resources, domRuns, request, pc, branch, calls, content,
                  downloads, responses >>

NextClassify == Classify

SpecClassify == InitClassify /\ [][NextClassify]_vars

-----------------------------------------------------------------------------
(* Harvester runs: a dashboard page whose parent document holds any panel  *)
(* list of at most MaxPanels panels, or whose fetch fails                  *)

GridData(y, x) == [kind |-> "object", y |-> Num(y), x |-> Num(x)]

HarvestPanels ==
  { [ kind |-> "object", type |-> S("lens"), panelIndex |-> S(index),
      gridData |-> grid ] :
      index \in { "p1", "p2", "p3" },
      grid \in { Undefined, GridData(0, 0), GridData(0, 1), GridData(1, 0) } }

RECURSIVE ListsUpTo(_, _)
ListsUpTo(elements, n) ==
  IF n = 0 THEN { << >> }
  ELSE LET shorter == ListsUpTo(elements, n - 1)
       IN shorter \cup { Append(l, e) : l \in shorter, e \in elements }

\* a parent document whose attributes hold the given panelsJSON field
DashboardDocument(panelsJSON) ==
  [ kind |-> "object",
    id |-> S("a"),
    type |-> S("dashboard"),
    attributes |->
      [ kind |-> "object", title |-> S("Overview"), panelsJSON |-> panelsJSON ] ]

\* a success response with the given body text
OkResponse(body) ==
  [ kind |-> "response", ok |-> TRUE, status |-> "200",
    statusText |-> "OK", body |-> body ]

NotFoundResponse ==
  [ kind |-> "response", ok |-> FALSE, status |-> "404",
    statusText |-> "Not Found",
    body |-> S("Saved object [dashboard/a] not found") ]

RejectedFetch == [kind |-> "rejected"]

\* responses whose fetch or whose panel-list field fails
FailingResponses ==
  { NotFoundResponse, RejectedFetch,
    OkResponse(JSONStringify(DashboardDocument(S("[{not json")))),
    OkResponse(JSONStringify(DashboardDocument(JSONStringify(Null)))) }

\* responses whose document has no panel-list field, or an empty one
MissingFieldResponses ==
  { OkResponse(JSONStringify(DashboardDocument(Undefined))),
    OkResponse(JSONStringify(DashboardDocument(Str(<< >>)))),
    OkResponse(JSONStringify([kind |-> "object", id |-> S("a")])) }

PanelListResponse(panels) ==
  OkResponse(JSONStringify(DashboardDocument(JSONStringify(Array(panels)))))

DashboardUrl == << "/app/dashboards#/view/", "a" >>

InitHarvest ==
  /\ url = DashboardUrl
  /\ dashResponse \in
       { PanelListResponse(l) : l \in ListsUpTo(HarvestPanels, MaxPanels) }
         \cup FailingResponses \cup MissingFieldResponses
  /\ dom = << >>
  /\ detected = Pending
  /\ harvested = Pending
  /\ ScanIdle
  /\ WindowReady
  /\ LoggerIdle
  /\ ExportIdle
  /\ ListenerIdle
  /\ PopupClosed
  /\ SynthesizerIdle

\* const panels = await getEmbeddedPanelsFromAPI(mainResource.id);
Harvest ==
  /\ harvested = Pending
  /\ harvested' = getEmbeddedPanelsFromAPI(detectSavedObject(url).id, dashResponse)
  /\ UNCHANGED << pageVars, windowVars, loggerVars, listenerVars, popupVars, panelConfig, exported, reply, detected, scanPc,
                  resources, domRuns, request, pc, branch, calls, content,
                  downloads, responses >>

NextHarvest == Harvest

SpecHarvest == InitHarvest /\ [][NextHarvest]_vars

-----------------------------------------------------------------------------
(* Scan runs: a page of one of the URL shapes below, a parent document     *)
(* with at most MaxScanPanels panels or a failing one, and at most         *)
(* MaxContainers rendered panel containers                                 *)

ScanUrls ==
  { << "/app/dashboards#/view/", "a" >>,
    << "/app/dashboards#/view/", "a", "?", "a" >>,
    << "/app/dashboards" >>,
    << "/app/lens#/edit/", "a" >>,
    << "/app/lens#/edit/", "a", "?", "/app/dashboards" >>,
    << "/app/security/cases/", "a" >>,
    << "a" >> }

ScanPanels ==
  { [ kind |-> "object", type |-> S("lens"), panelIndex |-> S("p1"),
      gridData |-> GridData(0, 1) ],
    [ kind |-> "object", type |-> S("visualization"), panelIndex |-> S("p2"),
      gridData |-> GridData(0, 0) ],
    [ kind |-> "object", type |-> S("map"), panelIndex |-> S("p3"),
      title |-> S("Regions") ],
    \* a panel stored by reference: its type is kept in the references of
    \* the parent document, not in the entry
    [ kind |-> "object", panelRefName |-> S("panel_0"), panelIndex |-> S("p4"),
      gridData |-> GridData(1, 0) ] }

\* a container for which every probe of extractPanelInfo comes back empty
BareContainer(top, left) ==
  [ titleTexts |-> << >>,
    dataAttrs |-> << Null, Null, Null, Null >>,
    childData |-> << >>,
    editLinks |-> << >>,
    lensContainer |-> FALSE,
    visContainer |-> Null,
    attrValues |-> << >>,
    testSubj |-> S("embeddablePanel"),
    className |-> Str(<< >>),
    innerHTML |-> {},
    rect |-> [top |-> top, left |-> left] ]

ScanContainers ==
  { [BareContainer(0, 600) EXCEPT !.titleTexts = << S("CPU") >>],
    [BareContainer(10, 0) EXCEPT
       !.dataAttrs = << S("so-1"), Null, Null, Null >>,
       !.className = S("mapPanel")],
    [BareContainer(400, 0) EXCEPT
       !.editLinks = << Str(<< "/app/lens#", "/edit/", "a" >>) >>],
    BareContainer(400, 600) }

ScanPages ==
  { [selector |-> 1, elements |-> l] : l \in ListsUpTo(ScanContainers, MaxContainers) }
    \cup { [selector |-> 5, elements |-> << BareContainer(0, 0) >>] }

InitScan ==
  /\ url \in ScanUrls
  /\ dashResponse \in
       { PanelListResponse(l) : l \in ListsUpTo(ScanPanels, MaxScanPanels) }
         \cup FailingResponses \cup MissingFieldResponses
  /\ dom \in ScanPages
  /\ detected = Pending
  /\ harvested = Pending
  /\ ScanIdle
  /\ WindowReady
  /\ LoggerIdle
  /\ ExportIdle
  /\ ListenerIdle
  /\ PopupClosed
  /\ SynthesizerIdle

NextScan == ScanStart \/ ScanResume

SpecScan == InitScan /\ [][NextScan]_vars

-----------------------------------------------------------------------------
(* Export runs: one export request with any combination of the fields      *)
(* below, sent to a page whose parent document holds at most               *)
(* MaxExportPanels panels or fails                                         *)

ExportRequests ==
  { [ kind |-> "object",
      action |-> S("exportSavedObject"),
      type |-> type,
      id |-> id,
      title |-> S("Sales"),
      panelIndex |-> panelIndex,
      dashboardId |-> dashboardId,
      isEmbedded |-> isEmbedded,
      useAlternativeApi |-> useAlternativeApi ] :
      type \in { S("dashboard"), S("lens"), S("slo"), S("alert"), S("cases") },
      id \in { Null, S("a") },
      panelIndex \in { Undefined, Num(0), Num(1), Str(<< >>), S("p1"), S("p3") },
      dashboardId \in { Undefined, S("a") },
      isEmbedded \in { Undefined, Bool(TRUE) },
      useAlternativeApi \in { Bool(FALSE), Bool(TRUE) } }

ExportPanels ==
  { [ kind |-> "object", type |-> S("lens"), panelIndex |-> S("p1"),
      gridData |-> GridData(0, 0),
      embeddableConfig |->
        [ kind |-> "object",
          attributes |->
            [ kind |-> "object", title |-> S("Sales"),
              state |-> [kind |-> "object", query |-> S("kql")] ] ] ],
    [ kind |-> "object", type |-> S("visualization"), panelIndex |-> S("1"),
      gridData |-> GridData(0, 1) ] }

\* what the backend may answer to the alternate read endpoint
AlternativeReplies ==
  { OkResponse(JSONStringify([kind |-> "object", name |-> S("Latency")])),
    OkResponse(S("<html>")),
    NotFoundResponse,
    RejectedFetch }

\* what the backend may answer to the bulk export endpoint
BulkReplies ==
  { OkResponse(JoinedLines(<< JSONStringify([kind |-> "object", id |-> S("a")]),
                              JSONStringify(ExportSummary) >>)),
    [ kind |-> "response", ok |-> FALSE, status |-> "400",
      statusText |-> "Bad Request",
      body |-> S("Trying to export non-exportable type(s)") ],
    RejectedFetch }

Timestamps == { S("2026-01-01T00:00:00.000Z") }

RandomUuids == { S("550e8400-e29b-41d4-a716-446655440000") }

InitExport ==
  /\ url = DashboardUrl
  /\ dashResponse \in
       { PanelListResponse(l) : l \in ListsUpTo(ExportPanels, MaxExportPanels) }
         \cup FailingResponses \cup MissingFieldResponses
  /\ dom = [selector |-> 1, elements |-> << BareContainer(0, 0) >>]
  /\ detected = Pending
  /\ harvested = Pending
  /\ ScanIdle
  /\ WindowReady
  /\ LoggerIdle
  /\ ExportIdle
  /\ ListenerIdle
  /\ PopupClosed
  /\ SynthesizerIdle

NextExport ==
  \/ \E req \in ExportRequests : ExportReceive(req)
  \/ \E now \in Timestamps, uuid \in RandomUuids : ExportEmbeddedResume(now, uuid)
  \/ \E resp \in AlternativeReplies : ExportAlternativeResume(resp)
  \/ \E resp \in BulkReplies : ExportBulkResume(resp)
  \/ \E outcome \in { "saved", "failed", "unreachable" } : ExportDownloadReply(outcome)

SpecExport == InitExport /\ [][NextExport]_vars

-----------------------------------------------------------------------------
(* Synthesizer runs: constructPanelExport applied to a panel configuration *)
(* block of any kind, with or without a panelIndex, with any of the        *)
(* embeddable configurations below                                         *)

LensConfig ==
  [ kind |-> "object",
    attributes |->
      [ kind |-> "object",
        title |-> S("Sales"),
        description |-> S("Revenue by region"),
        visualizationType |-> S("lnsPie"),
        state |-> [kind |-> "object", query |-> S("kql")],
        references |->
          Array(<< [kind |-> "object", name |-> S("indexpattern"), id |-> S("logs")] >>) ] ]

\* a configuration whose state is already JSON text
EncodedStateConfig ==
  [ kind |-> "object",
    attributes |->
      [ kind |-> "object",
        title |-> S("Sales"),
        state |-> JSONStringify([kind |-> "object", query |-> S("kql")]) ] ]

MapConfig ==
  [ kind |-> "object",
    attributes |->
      [ kind |-> "object",
        title |-> S("Regions"),
        description |-> S("Offices"),
        layerListJSON |-> JSONStringify(Array(<< [kind |-> "object", id |-> S("layer")] >>)),
        mapStateJSON |-> [kind |-> "object", zoom |-> Num(3)] ] ]

VisualizationConfig ==
  [ kind |-> "object",
    savedVis |->
      [ kind |-> "object",
        title |-> S("Notes"),
        description |-> S("Release notes"),
        type |-> S("metric"),
        params |-> [kind |-> "object", fontSize |-> Num(9)],
        uiState |-> [kind |-> "object", collapsed |-> Bool(TRUE)],
        data |->
          [ kind |-> "object",
            aggs |-> Array(<< [kind |-> "object", type |-> S("count")] >>),
            searchSource |-> [kind |-> "object", index |-> S("logs")] ] ] ]

SearchConfig ==
  [ kind |-> "object",
    attributes |->
      [ kind |-> "object",
        title |-> S("Errors"),
        description |-> S("Error log lines"),
        columns |-> Array(<< S("host") >>),
        sort |-> Array(<< Array(<< S("@timestamp"), S("desc") >>) >>),
        kibanaSavedObjectMeta |->
          [ kind |-> "object",
            searchSourceJSON |-> JSONStringify([kind |-> "object", index |-> S("logs")]) ] ] ]

\* a panel title set on the dashboard over the title of the configuration
OverrideConfig ==
  [ kind |-> "object",
    title |-> S("Override"),
    attributes |-> [kind |-> "object", title |-> S("Inner")] ]

EmbeddableConfigs ==
  { Undefined, LensConfig, EncodedStateConfig, MapConfig, VisualizationConfig,
    SearchConfig, OverrideConfig }

SynthesizerPanels ==
  { [ kind |-> "object", type |-> type, panelIndex |-> panelIndex,
      embeddableConfig |-> embeddableConfig ] :
      type \in { Undefined, S("lens"), S("visualization"), S("map"), S("search"),
                 S("links") },
      panelIndex \in { Undefined, S("p1") },
      embeddableConfig \in EmbeddableConfigs }

InitSynthesize ==
  /\ url = DashboardUrl
  /\ dashResponse = Undefined
  /\ dom = << >>
  /\ detected = Pending
  /\ harvested = Pending
  /\ ScanIdle
  /\ WindowReady
  /\ LoggerIdle
  /\ ExportIdle
  /\ ListenerIdle
  /\ PopupClosed
  /\ panelConfig \in SynthesizerPanels
  /\ exported = Pending

\* return constructPanelExport(panel, dashboardTitle)
Synthesize(now, uuid) ==
  /\ exported = Pending
  /\ exported' = constructPanelExport(panelConfig, S("Dashboard"), now, uuid)
  /\ UNCHANGED << pageVars, windowVars, loggerVars, listenerVars, popupVars, detected, harvested, panelConfig, scanPc, resources,
                  domRuns, request, pc, branch, calls, reply, content,
                  downloads, responses >>

NextSynthesize ==
  \E now \in Timestamps, uuid \in RandomUuids : Synthesize(now, uuid)

SpecSynthesize == InitSynthesize /\ [][NextSynthesize]_vars

-----------------------------------------------------------------------------
(* Listener runs: one message of any action, or of none, delivered to the  *)
(* listener of a page that may carry the highlight of an earlier message   *)

ListenerDocuments ==
  { PanelListResponse(<< >>), NotFoundResponse }
    \cup { PanelListResponse(<< panel >>) : panel \in ScanPanels }

ListenerPages ==
  { [selector |-> 1, elements |-> << BareContainer(400, 0), BareContainer(0, 600) >>],
    [selector |-> 5, elements |-> << BareContainer(0, 0) >>],
    [selector |-> 1, elements |-> << >>] }

HighlightRequests ==
  { [ kind |-> "object", action |-> S("highlightPanel"),
      panelIndex |-> S("p1"), index |-> index ] :
      index \in { Undefined, Num(0), Num(1), Num(2), Num(3) } }

ListenerExportRequests ==
  { req \in ExportRequests :
      /\ req.type \in { S("dashboard"), S("slo") }
      /\ req.panelIndex \in { Undefined, S("p1") } }

\* messages whose action is none of those the listener tests for
OtherRequests ==
  { [kind |-> "object", action |-> S("downloadFile")],
    [kind |-> "object", action |-> S("ping")],
    [kind |-> "object"] }

\* no message has been delivered in this behaviour
NoMessageYet ==
  /\ scanPc = "idle"
  /\ pc = "idle"
  /\ handled = Null

ListenerUrls ==
  { << "/app/dashboards#/view/", "a" >>,
    << "/app/lens#/edit/", "a", "?", "/app/dashboards" >>,
    << "/app/security/cases/", "a" >>,
    << "a" >> }

InitListener ==
  /\ url \in ListenerUrls
  /\ dashResponse \in ListenerDocuments
  /\ dom \in ListenerPages
  /\ detected = Pending
  /\ harvested = Pending
  /\ ScanIdle
  /\ WindowReady
  /\ LoggerIdle
  /\ ExportIdle
  /\ SynthesizerIdle
  /\ PopupClosed
  /\ handled = Null
  /\ \E index \in { Undefined, Num(1) } :
       /\ highlightedElement = highlightPanel(dom, index).element
       /\ highlightOverlay = highlightPanel(dom, index).overlay
  /\ overlays = (IF highlightOverlay = Null THEN 0 ELSE 1)

NextListener ==
  \/ \E req \in HighlightRequests : NoMessageYet /\ HighlightPanel(req)
  \/ NoMessageYet /\ UnhighlightPanel([kind |-> "object", action |-> S("unhighlightPanel")])
  \/ NoMessageYet /\ InfoStart
  \/ InfoResume
  \/ NoMessageYet /\ ScanStart
  \/ ScanResume
  \/ \E req \in ListenerExportRequests : NoMessageYet /\ ExportReceive(req)
  \/ \E now \in Timestamps, uuid \in RandomUuids : ExportEmbeddedResume(now, uuid)
  \/ \E resp \in AlternativeReplies : ExportAlternativeResume(resp)
  \/ \E resp \in BulkReplies : ExportBulkResume(resp)
  \/ \E outcome \in { "saved", "failed", "unreachable" } : ExportDownloadReply(outcome)
  \/ \E req \in OtherRequests : NoMessageYet /\ FallThrough(req)

SpecListener == InitListener /\ [][NextListener]_vars

-----------------------------------------------------------------------------
(* Popup runs: the popup is opened on a page, asks the content script what *)
(* it detects, and may export it                                           *)

PopupUrls == ScanUrls \cup { << PatternPrefix("slo"), "a" >> }

InitPopup ==
  /\ url \in PopupUrls
  /\ dashResponse \in ListenerDocuments
  /\ dom = [selector |-> 1, elements |-> << BareContainer(0, 0) >>]
  /\ detected = Pending
  /\ harvested = Pending
  /\ ScanIdle
  /\ WindowReady
  /\ LoggerIdle
  /\ ExportIdle
  /\ SynthesizerIdle
  /\ ListenerIdle
  /\ popupPc = "getSavedObjectInfo:tab"
  /\ visible = { "loading" }
  /\ currentSavedObject = Null
  /\ currentTabId = Null
  /\ shownText = [neReason |-> Str(<< >>), errorMessage |-> Str(<< >>),
                  successFilename |-> Str(<< >>)]

NextPopup ==
  \/ \E outcome \in { "noTab", "notInjected", "sent" } : PopupQuery(outcome)
  \/ popupPc = "getSavedObjectInfo:response" /\ InfoStart
  \/ InfoResume
  \/ PopupInfoResponse
  \/ PopupInfoRejected
  \/ PopupExport
  \/ popupPc = "exportSavedObject:response"
       /\ ExportReceive(PopupExportMessage(currentSavedObject))
  \/ \E resp \in AlternativeReplies : ExportAlternativeResume(resp)
  \/ \E resp \in BulkReplies : ExportBulkResume(resp)
  \/ \E outcome \in { "saved", "failed", "unreachable" } : ExportDownloadReply(outcome)
  \/ PopupExportResponse
  \/ PopupExportRejected
  \/ retryExport

SpecPopup == InitPopup /\ [][NextPopup]_vars

-----------------------------------------------------------------------------
(* Session runs: a dashboard page that is scanned more than once, with     *)
(* highlight and unhighlight messages, scroll and resize events and one    *)
(* export arriving before, between and during the scans                    *)

\* how many scans a session holds
MaxScans == 2

\* where the document can be scrolled to
ScrollPositions == { 0, 20 }

\* how many messages a session answers
MaxMessages == 3

\* room for one more answered message
MayAnswer == Len(responses) < MaxMessages

TitledContainer(top, left, title) ==
  [BareContainer(top, left) EXCEPT !.titleTexts = << S(title) >>]

SessionPages ==
  { [selector |-> 1,
     elements |-> << TitledContainer(60, 0, "Memory"), TitledContainer(40, 600, "CPU") >>],
    [selector |-> 1,
     elements |-> << TitledContainer(400, 0, "Disk"), BareContainer(0, 600),
                     TitledContainer(0, 0, "CPU") >>],
    [selector |-> 5, elements |-> << BareContainer(0, 0) >>] }

SessionPanel(panelIndex, title, gridData) ==
  [ kind |-> "object", type |-> S("lens"), panelIndex |-> S(panelIndex),
    title |-> S(title), gridData |-> gridData ]

SessionDocuments ==
  { NotFoundResponse,
    PanelListResponse(<< >>),
    PanelListResponse(<< SessionPanel("p2", "Disk", GridData(15, 0)),
                         SessionPanel("p1", "CPU", GridData(0, 0)) >>) }

SessionHighlightRequests ==
  { req \in HighlightRequests : req.index \in { Num(0), Num(1), Num(2) } }

SessionExportRequests ==
  { req \in ListenerExportRequests :
      /\ req.type = S("dashboard")
      /\ req.id = S("a")
      /\ req.useAlternativeApi = Bool(FALSE)
      /\ req.dashboardId = S("a")
      /\ req.isEmbedded = (IF req.panelIndex = Undefined THEN Undefined ELSE Bool(TRUE)) }

\* the scans answered so far
ScanResponses == SelectSeq(responses, LAMBDA response : "resources" \in DOMAIN response)

\* The listener returns from an answered getAllResources message and the
\* next one arrives: getAllResources starts again with an empty list.
ScanAgain ==
  /\ scanPc = "done"
  /\ Len(ScanResponses) < MaxScans
  /\ scanPc' = "idle"
  /\ resources' = << >>
  /\ domRuns' = 0
  /\ UNCHANGED << pageVars, windowVars, loggerVars, listenerVars, popupVars,
                  runVars, request, pc, branch, calls, reply, content,
                  downloads, responses >>

InitSession ==
  /\ url = << "/app/dashboards#/view/", "a" >>
  /\ dashResponse \in SessionDocuments
  /\ dom \in SessionPages
  /\ detected = Pending
  /\ harvested = Pending
  /\ ScanIdle
  /\ WindowReady
  /\ LoggerIdle
  /\ ExportIdle
  /\ ListenerIdle
  /\ PopupClosed
  /\ SynthesizerIdle

NextSession ==
  \/ ScanStart
  \/ ScanResume
  \/ ScanAgain
  \/ \E req \in SessionHighlightRequests : MayAnswer /\ HighlightPanel(req)
  \/ MayAnswer /\ UnhighlightPanel([kind |-> "object", action |-> S("unhighlightPanel")])
  \/ \E to \in ScrollPositions : ViewportChange(to)
  \/ \E req \in SessionExportRequests : MayAnswer /\ ExportReceive(req)
  \/ \E now \in Timestamps, uuid \in RandomUuids : ExportEmbeddedResume(now, uuid)
  \/ \E resp \in BulkReplies : ExportBulkResume(resp)
  \/ \E outcome \in { "saved", "failed", "unreachable" } : ExportDownloadReply(outcome)

SpecSession == InitSession /\ [][NextSession]_vars

-----------------------------------------------------------------------------
(* DOM harvest runs: detectEmbeddedPanels on a page of at most             *)
(* MaxDomPanels containers, titled ones at any of nine positions and, at   *)
(* fixed positions, one with only an id, one with both and bare ones       *)

\* most panel containers rendered on the page in the DOM harvest runs
MaxDomPanels == 3

DomContainers ==
  { TitledContainer(top, left, "CPU") : top \in { 0, 40, 80 }, left \in { 0, 100, 200 } }
    \cup { [BareContainer(40, 300) EXCEPT
              !.dataAttrs = << Null, S("so-1"), Null, Null >>],
           [TitledContainer(0, 300, "Memory") EXCEPT
              !.editLinks = << Str(<< "/app/maps#", "/edit/", "a" >>) >>],
           [BareContainer(80, 50) EXCEPT
              !.visContainer = [renderCompleteId |-> Null, embeddableId |-> S("e-1")]],
           [BareContainer(40, 50) EXCEPT
              !.attrValues = << S("href"), S("550e8400-e29b-41d4-a716-446655440000") >>],
           BareContainer(0, 50),
           [BareContainer(80, 300) EXCEPT !.titleTexts = << Str(<< >>) >>] }

InitDetect ==
  /\ url = DashboardUrl
  /\ dashResponse = NotFoundResponse
  /\ \E l \in ListsUpTo(DomContainers, MaxDomPanels), selector \in { 1, 4 } :
       dom = [selector |-> selector, elements |-> l]
  /\ detected = Pending
  /\ harvested = Pending
  /\ ScanIdle
  /\ WindowReady
  /\ LoggerIdle
  /\ ExportIdle
  /\ ListenerIdle
  /\ PopupClosed
  /\ SynthesizerIdle

\* panels.push(...await detectEmbeddedPanels()) seen on its own
Detect ==
  /\ harvested = Pending
  /\ harvested' = Return(detectEmbeddedPanels(dom))
  /\ UNCHANGED << pageVars, windowVars, loggerVars, listenerVars, popupVars,
                  panelConfig, exported, reply, detected, scanPc, resources,
                  domRuns, request, pc, branch, calls, content, downloads,
                  responses >>

NextDetect == Detect

SpecDetect == InitDetect /\ [][NextDetect]_vars

-----------------------------------------------------------------------------
(* The injection guard: the content script file run on a page any number   *)
(* of times, and the page replaced by a new one                            *)

\* the window after the file ran with the guard left out
Injected_unguarded ==
  [ loaded |-> TRUE,
    messageListeners |-> messageListeners + 1,
    positionListeners |-> positionListeners + 1 ]

\* The window after the top level of the file ran: with the flag set
\* nothing is done; otherwise the flag is set and initKibanaExporter
\* registers the message listener and, for scroll and for resize,
\* updateHighlightPosition.
Injected ==
  IF loaded
    THEN [ loaded |-> loaded,
           messageListeners |-> messageListeners,
           positionListeners |-> positionListeners ]
    ELSE [ loaded |-> TRUE,
           messageListeners |-> messageListeners + 1,
           positionListeners |-> positionListeners + 1 ]

\* how many times the file is run on one page
MaxInjections == 3

\* chrome.scripting.executeScript({ files: ['content/content.js'] })
Inject ==
  /\ injections < MaxInjections
  /\ injections' = injections + 1
  /\ \E window \in { Injected } :
       /\ loaded' = window.loaded
       /\ messageListeners' = window.messageListeners
       /\ positionListeners' = window.positionListeners
  /\ UNCHANGED << pageVars, loggerVars, listenerVars, runVars, popupVars,
                  scrollY, overlays, scanPc, resources, domRuns, request, pc, branch,
                  calls, reply, content, downloads, responses >>

\* The tab loads a new document: a new window without the flag, without
\* listeners and without a highlight, not scrolled.
Navigate(page) ==
  /\ injections > 0
  /\ dom' = page
  /\ scrollY' = 0
  /\ injections' = 0
  /\ loaded' = FALSE
  /\ messageListeners' = 0
  /\ positionListeners' = 0
  /\ highlightedElement' = Null
  /\ highlightOverlay' = Null
  /\ overlays' = 0
  /\ UNCHANGED << url, dashResponse, loggerVars, runVars, popupVars, handled,
                  scanPc, resources, domRuns, request, pc, branch, calls,
                  reply, content, downloads, responses >>

InitInject ==
  /\ url = DashboardUrl
  /\ dashResponse = NotFoundResponse
  /\ dom \in SessionPages
  /\ detected = Pending
  /\ harvested = Pending
  /\ ScanIdle
  /\ LoggerIdle
  /\ ExportIdle
  /\ ListenerIdle
  /\ PopupClosed
  /\ SynthesizerIdle
  /\ scrollY = 0
  /\ injections = 0
  /\ loaded = FALSE
  /\ messageListeners = 0
  /\ positionListeners = 0

NextInject ==
  \/ Inject
  \/ \E page \in SessionPages : Navigate(page)
  \/ \E req \in SessionHighlightRequests :
       messageListeners > 0 /\ MayAnswer /\ HighlightPanel(req)
  \/ /\ messageListeners > 0
     /\ MayAnswer
     /\ UnhighlightPanel([kind |-> "object", action |-> S("unhighlightPanel")])
  \/ \E to \in ScrollPositions : ViewportChange(to)

SpecInject == InitInject /\ [][NextInject]_vars

-----------------------------------------------------------------------------
(* Round-trip runs: a dashboard is scanned on the API path and one of the  *)
(* panel descriptors of the answer is exported, as the side panel does     *)

\* longest panel list of a parent document in the round-trip runs
MaxRoundTripPanels == 2

RoundTripPanels ==
  { [ kind |-> "object", type |-> S("lens"), panelIndex |-> panelIndex,
      title |-> S(title), gridData |-> gridData ] :
      panelIndex \in { Undefined, Str(<< >>), Num(0), S("p1"), S("p2") },
      title \in { "CPU", "Disk" },
      gridData \in { GridData(0, 0), GridData(1, 0) } }

\* the message handleDownload() of the side panel sends for a resource of
\* the scanned list; a field the resource lacks reads as undefined
SidepanelExportMessage(resource) ==
  [ kind |-> "object",
    action |-> S("exportSavedObject"),
    type |-> Get(resource, "type"),
    id |-> Get(resource, "id"),
    title |-> Get(resource, "title"),
    panelIndex |-> Get(resource, "panelIndex"),
    dashboardId |-> Get(resource, "dashboardId"),
    isEmbedded |-> Get(resource, "isEmbedded"),
    useAlternativeApi |-> OrElse(Get(resource, "useAlternativeApi"), Bool(FALSE)) ]

\* the resources of the scan answer as the side panel stores them
StoredResources == JSONParse(JSONStringify(ScanResponses[1])).value.resources.items

\* A click on the download button of panel resource `index` of the list.
SidepanelDownload(index) ==
  /\ scanPc = "done"
  /\ index + 1 \in 2..Len(StoredResources)
  /\ ExportReceive(SidepanelExportMessage(StoredResources[index + 1]))

InitRoundTrip ==
  /\ url = DashboardUrl
  /\ dashResponse \in
       { PanelListResponse(l) : l \in ListsUpTo(RoundTripPanels, MaxRoundTripPanels) }
  /\ dom = [selector |-> 1, elements |-> << >>]
  /\ detected = Pending
  /\ harvested = Pending
  /\ ScanIdle
  /\ WindowReady
  /\ LoggerIdle
  /\ ExportIdle
  /\ ListenerIdle
  /\ PopupClosed
  /\ SynthesizerIdle

NextRoundTrip ==
  \/ ScanStart
  \/ ScanResume
  \/ \E index \in 1..MaxRoundTripPanels : SidepanelDownload(index)
  \/ \E now \in Timestamps, uuid \in RandomUuids : ExportEmbeddedResume(now, uuid)

SpecRoundTrip == InitRoundTrip /\ [][NextRoundTrip]_vars

-----------------------------------------------------------------------------
(* The logger singleton (src/shared/logger.js) and the extension storage.  *)
(* A storage request takes effect when it is issued; its reply, and the    *)
(* change event of a write that changed the value, reach the page later,   *)
(* in the order they were produced.                                        *)

\* most init() calls waiting for the storage read at once
MaxInitCalls == 3

\* most replies and events on their way to the page at once
MaxInbox == 5

\* init(): after initialization it returns at once; while the read is in
\* flight it returns the pending promise; otherwise it creates the promise,
\* whose body runs up to its await of chrome.storage.local.get, which
\* succeeds or fails.
LoggerInit(readFails) ==
  /\ ~initialized
  /\ initCalls < MaxInitCalls
  /\ initCalls' = initCalls + 1
  /\ IF initPromise # "null"
       THEN UNCHANGED << initPromise, storageReads, inbox >>
       ELSE /\ initPromise' = "pending"
            /\ storageReads' = storageReads + 1
            /\ inbox' = Append(inbox,
                         IF readFails THEN [type |-> "getFailed"]
                         ELSE [type |-> "got", value |-> storage])
  /\ UNCHANGED << pageVars, windowVars, listenerVars, popupVars, runVars,
                  debugEnabled, initialized, storage, lastSet, scanPc,
                  resources, domRuns, request, pc, branch, calls, reply,
                  content, downloads, responses >>

\* setDebugEnabled(enabled) up to its await: the field is set and the write
\* issued. A write that succeeds and changes the stored value produces a
\* change event; a write that fails changes nothing. The singleton called
\* init() when the module was loaded, so this is never the first call.
setDebugEnabled(enabled, writeFails) ==
  /\ initPromise # "null"
  /\ Len(inbox) + 2 <= MaxInbox
  /\ debugEnabled' = enabled
  /\ lastSet' = Bool(enabled)
  /\ IF writeFails
       THEN /\ storage' = storage
            /\ inbox' = Append(inbox, [type |-> "setFailed"])
       ELSE /\ storage' = Bool(enabled)
            /\ inbox' = inbox
                 \o (IF storage # Bool(enabled)
                       THEN << [type |-> "changed", newValue |-> Bool(enabled)] >>
                       ELSE << >>)
                 \o << [type |-> "set"] >>
  /\ UNCHANGED << pageVars, windowVars, listenerVars, popupVars, runVars,
                  initialized, initPromise, initCalls, storageReads, scanPc,
                  resources, domRuns, request, pc, branch, calls, reply,
                  content, downloads, responses >>

\* The oldest reply or event reaches the page: the body of the init
\* promise resumes after its await, or in its catch block; the onChanged
\* listener runs; or setDebugEnabled returns.
LoggerReceive ==
  /\ inbox # << >>
  /\ inbox' = Tail(inbox)
  /\ CASE Head(inbox).type = "got" ->
            /\ debugEnabled' = Truthy(Head(inbox).value)
            /\ initialized' = TRUE
            /\ initPromise' = "fulfilled"
            /\ initCalls' = 0
       [] Head(inbox).type = "getFailed" ->
            /\ debugEnabled' = FALSE
            /\ initialized' = TRUE
            /\ initPromise' = "fulfilled"
            /\ initCalls' = 0
       [] Head(inbox).type = "changed" ->
            /\ debugEnabled' = Truthy(Head(inbox).newValue)
            /\ UNCHANGED << initialized, initPromise, initCalls >>
       [] OTHER ->
            UNCHANGED << debugEnabled, initialized, initPromise, initCalls >>
  /\ UNCHANGED << pageVars, windowVars, listenerVars, popupVars, runVars,
                  storage, storageReads, lastSet, scanPc, resources, domRuns,
                  request, pc, branch, calls, reply, content, downloads,
                  responses >>

InitLogger ==
  /\ url = DashboardUrl
  /\ dashResponse = NotFoundResponse
  /\ dom = [selector |-> 1, elements |-> << >>]
  /\ detected = Pending
  /\ harvested = Pending
  /\ ScanIdle
  /\ WindowReady
  /\ ExportIdle
  /\ ListenerIdle
  /\ PopupClosed
  /\ SynthesizerIdle
  /\ debugEnabled = FALSE
  /\ initialized = FALSE
  /\ initPromise = "null"
  /\ initCalls = 0
  /\ storage \in { Undefined, Bool(FALSE), Bool(TRUE) }
  /\ storageReads = 0
  /\ inbox = << >>
  /\ lastSet = Null

NextLogger ==
  \/ \E readFails \in BOOLEAN : LoggerInit(readFails)
  \/ \E enabled \in BOOLEAN, writeFails \in BOOLEAN : setDebugEnabled(enabled, writeFails)
  \/ LoggerReceive

SpecLogger == InitLogger /\ [][NextLogger]_vars

-----------------------------------------------------------------------------
(* Claims about the classifier *)

\* The position in KIBANA_PATTERNS of the first pattern that matches, 0 for none.
FirstMatching(href) ==
  LET ks == { k \in 1..Len(KIBANA_PATTERNS) :
                PatternMatch(href, KIBANA_PATTERNS[k]) # << >> }
  IN IF ks = {} THEN 0 ELSE Min(ks)

\* The URL segment after the matched occurrence of the type's prefix, up to
\* the first '?', '&' or '#' (a token holding a '#' ends it).
RECURSIVE SegmentFrom(_, _)
SegmentFrom(s, i) ==
  IF i > Len(s) \/ s[i] \in ({ "?", "&" } \cup HashTokens)
    THEN << >>
    ELSE << s[i] >> \o SegmentFrom(s, i + 1)

SegmentAfterPrefix(href, type) ==
  LET hits == { i \in 1..Len(href) :
                  /\ href[i] = PatternPrefix(type)
                  /\ CaptureFrom(href, i + 1, PatternStops(type)) # << >> }
  IN SegmentFrom(href, Min(hits) + 1)

\* C9: for every page URL detectSavedObject returns the type of the first
\* pattern in table order that matches, with id exactly the URL segment
\* between that type's prefix and the first '?', '&' or fragment boundary,
\* and null if and only if no pattern matches.
C9_IdIsSegmentToQueryOrFragment ==
  detected # Pending =>
    LET k == FirstMatching(url)
    IN IF k = 0 THEN detected = Null
       ELSE /\ detected # Null
            /\ detected.type = S(KIBANA_PATTERNS[k])
            /\ detected.id = Str(SegmentAfterPrefix(url, KIBANA_PATTERNS[k]))

\* C10: the descriptor carries useAlternativeApi exactly when its type is
\* slo or alert, and notExportable with the configured reason exactly when
\* its type is cases; every other descriptor carries neither flag.
C10_CapabilityFlags ==
  (detected # Pending /\ detected # Null) =>
    /\ detected.useAlternativeApi =
         (IF detected.type \in { S("slo"), S("alert") }
            THEN Bool(TRUE) ELSE Undefined)
    /\ detected.notExportable =
         (IF detected.type = S("cases") THEN Bool(TRUE) ELSE Undefined)
    /\ detected.notExportableReason =
         (IF detected.type = S("cases")
            THEN S("Cases are not exportable via any known API")
            ELSE Undefined)

\* a cases page was classified: flagged non-exportable, not alternate
C10_Witness ==
  /\ detected # Pending
  /\ detected # Null
  /\ detected.type = S("cases")
  /\ detected.notExportable = Bool(TRUE)
  /\ detected.useAlternativeApi = Undefined

-----------------------------------------------------------------------------
(* Claims about the API-path harvester *)

\* whether the response carries a parent document with a parsed panel list
HasPanelList(resp) ==
  /\ resp.kind = "response"
  /\ resp.ok
  /\ JSONParse(resp.body).ok
  /\ Truthy(Get(Get(JSONParse(resp.body).value, "attributes"), "panelsJSON"))
  /\ JSONParse(Get(Get(JSONParse(resp.body).value, "attributes"), "panelsJSON")).ok
  /\ JSONParse(Get(Get(JSONParse(resp.body).value, "attributes"),
                   "panelsJSON")).value.kind = "array"

\* the panel list of such a response, in declaration order
PanelList(resp) ==
  JSONParse(Get(Get(JSONParse(resp.body).value, "attributes"),
                "panelsJSON")).value.items

\* grid row and column of a panel; a panel without gridData is at row 0,
\* column 0
GridRow(panel) ==
  IF Get(panel, "gridData") = Undefined THEN 0 ELSE panel.gridData.y.num

GridColumn(panel) ==
  IF Get(panel, "gridData") = Undefined THEN 0 ELSE panel.gridData.x.num

\* panel i comes before panel j: row, then column, then declaration order
GridBefore(panels, i, j) ==
  \/ GridRow(panels[i]) < GridRow(panels[j])
  \/ /\ GridRow(panels[i]) = GridRow(panels[j])
     /\ \/ GridColumn(panels[i]) < GridColumn(panels[j])
        \/ /\ GridColumn(panels[i]) = GridColumn(panels[j])
           /\ i < j

\* the panels in the one order that GridBefore allows
GridOrder(panels) ==
  [ r \in 1..Len(panels) |->
      panels[CHOOSE i \in 1..Len(panels) :
               Cardinality({ j \in 1..Len(panels) : GridBefore(panels, j, i) })
                 = r - 1] ]

\* C5: getEmbeddedPanelsFromAPI returns the panels by ascending grid row,
\* then ascending grid column, equal positions in declaration order, a
\* panel without gridData sorting as row 0, column 0.
C5_HarvestSortedByGrid ==
  (harvested # Pending /\ HasPanelList(dashResponse)) =>
    /\ harvested.ok
    /\ Len(harvested.value) = Len(PanelList(dashResponse))
    /\ \A r \in 1..Len(harvested.value) :
         harvested.value[r] =
           PanelDescriptor(GridOrder(PanelList(dashResponse))[r], S("a"))

\* a harvest that reordered the list, with a panel that has no gridData and
\* two different panels at the same position
C5_Witness ==
  /\ harvested # Pending
  /\ HasPanelList(dashResponse)
  /\ LET panels == PanelList(dashResponse)
     IN /\ Len(panels) = 3
        /\ \E k \in 1..3 : Get(panels[k], "gridData") = Undefined
        /\ \E i, j \in 1..3 :
             /\ i < j
             /\ panels[i] # panels[j]
             /\ GridRow(panels[i]) = GridRow(panels[j])
             /\ GridColumn(panels[i]) = GridColumn(panels[j])
        /\ GridOrder(panels) # panels
        /\ harvested.ok
        /\ harvested.value[1].panelIndex # panels[1].panelIndex

\* C22: a harvest that returns gives exactly one descriptor per entry of the
\* panel list, none dropped and none duplicated, each with id null,
\* isEmbedded true, the dashboard id the harvester was called with as
\* dashboardId, and the panelIndex of its entry; without a panel list it
\* gives none.
C22_OneDescriptorPerEntry ==
  (harvested # Pending /\ harvested.ok) =>
    IF HasPanelList(dashResponse)
      THEN LET panels == PanelList(dashResponse)
               n == Len(panels)
           IN /\ Len(harvested.value) = n
              /\ \E place \in Permutations(1..n) :
                   \A i \in 1..n :
                     /\ harvested.value[place[i]].id = Null
                     /\ harvested.value[place[i]].isEmbedded = Bool(TRUE)
                     /\ harvested.value[place[i]].dashboardId = detectSavedObject(url).id
                     /\ harvested.value[place[i]].panelIndex = Get(panels[i], "panelIndex")
      ELSE harvested.value = << >>

\* a harvest of three entries, two of them at the same grid position and
\* two with the same panelIndex, returned in another order than declared
C22_Witness ==
  /\ harvested # Pending
  /\ harvested.ok
  /\ HasPanelList(dashResponse)
  /\ LET panels == PanelList(dashResponse)
     IN /\ Len(panels) = 3
        /\ panels[1].panelIndex = panels[3].panelIndex
        /\ panels[1].panelIndex # panels[2].panelIndex
        /\ GridRow(panels[1]) = GridRow(panels[3])
        /\ GridColumn(panels[1]) = GridColumn(panels[3])
        /\ GridRow(panels[2]) < GridRow(panels[1])
        /\ Len(harvested.value) = 3
        /\ harvested.value[1].panelIndex = panels[2].panelIndex

-----------------------------------------------------------------------------
(* Claims about the resource aggregator *)

\* the primary resource of the page as a list: one entry when the
\* classifier matched, none otherwise
PrimaryPart ==
  IF detectSavedObject(url) = Null THEN << >> ELSE << detectSavedObject(url) >>

\* the primary resource is a dashboard with an id
PrimaryIsDashboardWithId ==
  /\ detectSavedObject(url) # Null
  /\ detectSavedObject(url).type = S("dashboard")
  /\ Truthy(detectSavedObject(url).id)

\* the parent fetch did not succeed, or the panel-list field is text that
\* does not parse
ApiHarvestFails(resp) ==
  \/ resp.kind = "rejected"
  \/ ~resp.ok
  \/ /\ JSONParse(resp.body).ok
     /\ Truthy(Get(Get(JSONParse(resp.body).value, "attributes"), "panelsJSON"))
     /\ ~JSONParse(Get(Get(JSONParse(resp.body).value, "attributes"),
                       "panelsJSON")).ok

\* the parent fetch succeeded and the document has no panel-list field
PanelListMissing(resp) ==
  /\ resp.kind = "response"
  /\ resp.ok
  /\ JSONParse(resp.body).ok
  /\ Get(Get(JSONParse(resp.body).value, "attributes"), "panelsJSON") = Undefined

\* C4: the list a scan returns is the primary resource, when the classifier
\* matched, followed by the panels the harvester returned only when the
\* primary resource is a dashboard with an id, and nothing else.
C4_PanelsOnlyForDashboardPrimary ==
  scanPc = "done" =>
    /\ SubSeq(resources, 1, Len(PrimaryPart)) = PrimaryPart
    /\ ~PrimaryIsDashboardWithId => resources = PrimaryPart
    /\ PrimaryIsDashboardWithId =>
         resources = PrimaryPart
           \o PanelsOrFallback(detectSavedObject(url).id, dashResponse, dom).panels

\* C6: after a scan whose API-path harvest failed the list is the primary
\* resource followed by the DOM-path panels, the DOM path having run once;
\* after a scan whose API-path harvest returned the panel list the DOM path
\* has not run and every entry after the primary is a panel of that list.
C6_FallbackToDomOnFailure ==
  (scanPc = "done" /\ calls # << >>) =>
    /\ ApiHarvestFails(dashResponse) =>
         /\ domRuns = 1
         /\ resources = PrimaryPart \o detectEmbeddedPanels(dom)
         /\ responses = << ScanResponse(resources) >>
    /\ HasPanelList(dashResponse) =>
         /\ domRuns = 0
         /\ Len(resources) = 1 + Len(PanelList(dashResponse))
         /\ \A i \in 2..Len(resources) :
              /\ Get(resources[i], "isEmbedded") = Bool(TRUE)
              /\ \E j \in 1..Len(PanelList(dashResponse)) :
                   resources[i].panelIndex = PanelList(dashResponse)[j].panelIndex
         /\ responses = << ScanResponse(resources) >>

\* a scan of a dashboard whose parent fetch failed returned the dashboard
\* and two panels read from the page
C6_Witness ==
  /\ scanPc = "done"
  /\ calls # << >>
  /\ ApiHarvestFails(dashResponse)
  /\ domRuns = 1
  /\ Len(resources) = 3
  /\ resources[1].type = S("dashboard")
  /\ Get(resources[2], "isEmbedded") = Undefined

\* C7: a scan whose parent document has no panel-list field falls back to
\* the DOM path, as for a malformed field: the DOM path runs and its panels
\* follow the primary resource.
C7_MissingFieldFallsBackToDom ==
  (scanPc = "done" /\ calls # << >> /\ PanelListMissing(dashResponse)) =>
    /\ domRuns = 1
    /\ resources = PrimaryPart \o detectEmbeddedPanels(dom)

-----------------------------------------------------------------------------
(* Claims about the export router *)

\* the backend calls issued are exactly this one
OnlyCall(method, path) ==
  /\ Len(calls) = 1
  /\ calls[1].method = method
  /\ calls[1].path = Str(path)

\* the extension of every downloadFile message sent
ExtensionIs(extension) ==
  \A i \in 1..Len(downloads) : downloads[i].fileExtension = S(extension)

C2_NoBulkCallWhenFlagSet ==
  (request # Null /\ Truthy(request.useAlternativeApi)) =>
    \A i \in 1..Len(calls) :
      ~(calls[i].method = "POST" /\ calls[i].path = S("/api/saved_objects/_export"))

\* C3: an export request for the non-exportable type cases makes no
\* backend call and ends with success false and the reason configured for
\* that type as error.
C3_NonExportableRejected ==
  (request # Null /\ request.type = S("cases")) =>
    /\ calls = << >>
    /\ pc = "done" =>
         responses = << [ kind |-> "object", success |-> Bool(FALSE),
                          error |->
                            S("Cases are not exportable via any known API") ] >>

\* the panelsJSON field is text that does not parse
PanelListUnparsable(resp) ==
  /\ resp.kind = "response"
  /\ resp.ok
  /\ JSONParse(resp.body).ok
  /\ Truthy(Get(Get(JSONParse(resp.body).value, "attributes"), "panelsJSON"))
  /\ ~JSONParse(Get(Get(JSONParse(resp.body).value, "attributes"),
                    "panelsJSON")).ok

\* the panel list has no panel whose panelIndex is the given one
PanelAbsent(resp, panelIndex) ==
  /\ HasPanelList(resp)
  /\ \A j \in 1..Len(PanelList(resp)) :
       Get(PanelList(resp)[j], "panelIndex") # panelIndex

\* C8: in the embedded export path a missing panel-list field, an
\* unparsable one, or the absence of the requested panel ends the export
\* with success false and an error: the DOM path is not run, no content is
\* produced and no downloadFile message is sent.
C8_EmbeddedFailureIsFatal ==
  ( /\ branch = "embedded"
    /\ pc # "awaitembedded"
    /\ \/ PanelListMissing(dashResponse)
       \/ PanelListUnparsable(dashResponse)
       \/ PanelAbsent(dashResponse, request.panelIndex) ) =>
    /\ pc = "done"
    /\ Len(responses) = 1
    /\ responses[1].success = Bool(FALSE)
    /\ Get(responses[1], "error").kind = "string"
    /\ content = Undefined
    /\ downloads = << >>
    /\ domRuns = 0
    /\ Len(calls) = 1

\* the export of panel 1 from a dashboard whose only panels are "p1" and
\* "1" failed: no panel has the number 1 as panelIndex
C8_Witness ==
  /\ branch = "embedded"
  /\ pc = "done"
  /\ request.panelIndex = Num(1)
  /\ HasPanelList(dashResponse)
  /\ Len(PanelList(dashResponse)) = 2
  /\ PanelAbsent(dashResponse, request.panelIndex)
  /\ responses = << [ kind |-> "object", success |-> Bool(FALSE),
                      error |-> Str(<< "Panel ", "1", " not found in dashboard" >>) ] >>
  /\ downloads = << >>


\* the text holds the piece as a run of consecutive tokens
Carries(text, piece) ==
  \E i \in 1..(Len(text) - Len(piece) + 1) :
    SubSeq(text, i, i + Len(piece) - 1) = piece

\* C11: when the bulk or the alternate call is answered with a non-success
\* response, the export request is answered once, with success false and
\* an error that holds the status, the status text and the response body
\* unchanged, and no downloadFile message is sent.
C11_BackendFailureCarried ==
  (branch \in { "bulk", "alternative" } /\ reply.kind = "response" /\ ~reply.ok) =>
    /\ pc = "done"
    /\ downloads = << >>
    /\ content = Undefined
    /\ Len(responses) = 1
    /\ responses[1].success = Bool(FALSE)
    /\ Carries(responses[1].error.str, << reply.status >>)
    /\ Carries(responses[1].error.str, << reply.statusText >>)
    /\ Carries(responses[1].error.str, reply.body.str)

\* a bulk export answered 400 Bad Request was reported with the body text
C11_Witness ==
  /\ branch = "bulk"
  /\ reply.kind = "response"
  /\ reply.status = "400"
  /\ pc = "done"
  /\ responses =
       << [ kind |-> "object", success |-> Bool(FALSE),
            error |-> Str(<< "Export failed: ", "400", " ", "Bad Request", " - ",
                             "Trying to export non-exportable type(s)" >>) ] >>


\* C12: when the fetch of the parent document is answered with a
\* non-success response, the failure raised holds both the HTTP status and
\* the response body.
C12_FetchFailureCarriesBody ==
  (harvested # Pending /\ dashResponse.kind = "response" /\ ~dashResponse.ok) =>
    /\ ~harvested.ok
    /\ Carries(harvested.error.str, << dashResponse.status >>)
    /\ Carries(harvested.error.str, dashResponse.body.str)


-----------------------------------------------------------------------------
(* Claims about the record synthesizer *)

\* the record that the first line of the exported text encodes
Record == JSONParse(exported.lines[1]).value

\* the attribute bag and the legacy chart of the given configuration block
SourceAttributes == Get(Get(panelConfig, "embeddableConfig"), "attributes")

SourceSavedVis == Get(Get(panelConfig, "embeddableConfig"), "savedVis")

\* the title of the given configuration block: the first of its title
\* locations that holds one
SourceTitle ==
  LET found == FirstTruthy(
        << Get(Get(panelConfig, "embeddableConfig"), "title"),
           Get(SourceAttributes, "title"),
           Get(SourceSavedVis, "title"),
           Get(Get(Get(panelConfig, "embeddableConfig"), "vis"), "title"),
           Get(Get(Get(SourceAttributes, "state"), "visualization"), "title"),
           Get(panelConfig, "title") >>)
  IN IF found = Null THEN S("Untitled Panel") ELSE found

C14_RecordThenSummary ==
  exported # Pending =>
    /\ exported.kind = "string"
    /\ Len(exported.lines) = 2
    /\ \A i \in 1..2 :
         /\ JSONParse(exported.lines[i]).ok
         /\ JSONParse(exported.lines[i]).value.kind = "object"
    /\ "attributes" \in DOMAIN Record
    /\ JSONParse(exported.lines[2]).value =
         [ kind |-> "object",
           excludedObjects |-> Array(<< >>),
           excludedObjectsCount |-> Num(0),
           exportedCount |-> Num(1),
           missingRefCount |-> Num(0),
           missingReferences |-> Array(<< >>) ]

\* a map panel was synthesized into a record line and a summary line
C14_Witness ==
  /\ exported # Pending
  /\ panelConfig.type = S("map")
  /\ Len(exported.lines) = 2
  /\ Record.type = S("map")
  /\ JSONParse(exported.lines[2]).value.exportedCount = Num(1)

\* C15: the record synthesized for a lens panel with title T has type
\* lens, attributes.title T, and as attributes.state a string holding the
\* JSON text of the panel's state, {} when the panel has none; never a
\* nested structure.
C15_LensStateIsEncodedString ==
  (exported # Pending /\ panelConfig.type = S("lens")) =>
    /\ Record.type = S("lens")
    /\ Record.attributes.title = SourceTitle
    /\ Record.attributes.state.kind = "string"
    /\ JSONParse(Record.attributes.state).ok
    /\ ~Truthy(Get(SourceAttributes, "state")) =>
         JSONParse(Record.attributes.state).value = EmptyObject
    /\ Get(SourceAttributes, "state").kind = "object" =>
         JSONParse(Record.attributes.state).value = SourceAttributes.state

\* the lens panel titled Sales was synthesized with its state encoded
C15_Witness ==
  /\ exported # Pending
  /\ panelConfig.type = S("lens")
  /\ panelConfig.embeddableConfig = LensConfig
  /\ Record.attributes.title = S("Sales")
  /\ Record.attributes.state = JSONStringify([kind |-> "object", query |-> S("kql")])

\* the configuration a source sub-field stands for: what its text encodes
\* when it is already encoded, the default when the source has none
Decoded(field, default) ==
  IF field.kind = "string" /\ "json" \in DOMAIN field THEN field.json
  ELSE IF Truthy(field) THEN field
  ELSE default

\* the value the text of a record sub-field decodes to
DecodedField(text) == JSONParse(text).value

DefaultSearchSource ==
  [ kind |-> "object",
    query |-> [kind |-> "object", language |-> S("kuery"), query |-> Str(<< >>)],
    filter |-> Array(<< >>) ]

\* C16: for each known panel kind, decoding the encoded sub-fields of the
\* synthesized record gives back the title, the description and the state
\* of the source configuration, also when a source sub-field is already an
\* encoded string.
C16_RoundTrip ==
  exported # Pending =>
    LET kindOf == Get(panelConfig, "type")
        attrs == Record.attributes
    IN /\ kindOf \in { S("lens"), S("visualization"), S("map"), S("search") } =>
            attrs.title = SourceTitle
       /\ kindOf \in { S("lens"), S("map"), S("search") } =>
            attrs.description = OrElse(Get(SourceAttributes, "description"), Str(<< >>))
       /\ kindOf = S("lens") =>
            DecodedField(attrs.state) =
              Decoded(Get(SourceAttributes, "state"), EmptyObject)
       /\ kindOf = S("visualization") =>
            /\ attrs.description = OrElse(Get(SourceSavedVis, "description"), Str(<< >>))
            /\ DecodedField(attrs.visState) =
                 [ kind |-> "object",
                   type |-> OrElse(Get(SourceSavedVis, "type"), S("markdown")),
                   params |-> OrElse(Get(SourceSavedVis, "params"), EmptyObject),
                   aggs |-> OrElse(Get(Get(SourceSavedVis, "data"), "aggs"), Array(<< >>)),
                   title |-> SourceTitle ]
            /\ DecodedField(attrs.uiStateJSON) =
                 Decoded(Get(SourceSavedVis, "uiState"), EmptyObject)
            /\ DecodedField(attrs.kibanaSavedObjectMeta.searchSourceJSON) =
                 Decoded(Get(Get(SourceSavedVis, "data"), "searchSource"),
                         DefaultSearchSource)
       /\ kindOf = S("map") =>
            /\ DecodedField(attrs.layerListJSON) =
                 Decoded(Get(SourceAttributes, "layerListJSON"), Array(<< >>))
            /\ DecodedField(attrs.mapStateJSON) =
                 Decoded(Get(SourceAttributes, "mapStateJSON"), EmptyObject)
            /\ DecodedField(attrs.uiStateJSON) =
                 Decoded(Get(SourceAttributes, "uiStateJSON"), EmptyObject)
       /\ kindOf = S("search") =>
            DecodedField(attrs.kibanaSavedObjectMeta.searchSourceJSON) =
              Decoded(Get(Get(SourceAttributes, "kibanaSavedObjectMeta"),
                          "searchSourceJSON"), EmptyObject)

\* C29: for a panel of any kind, the title in the attributes of the
\* synthesized record is the title the API-path harvester reports for the
\* same panel.
C29_RecordTitleIsHarvestedTitle ==
  exported # Pending =>
    Get(Get(Record, "attributes"), "title") =
      PanelDescriptor(panelConfig, S("a")).title

-----------------------------------------------------------------------------
(* Claims about the message listener *)

\* C17: nothing is retried. Handling one message issues at most one backend
\* call, whatever the backend answers to it; the page is probed for panels
\* at most once, only by a scan, and only after its harvest from the parent
\* document failed; an export never falls back to anything, and once the
\* backend has refused or failed its call the export is over, answered
\* with a failure.
C17_NothingRetried ==
  /\ Len(calls) <= 1
  /\ domRuns <= 1
  /\ domRuns = 1 =>
       /\ scanPc = "done"
       /\ Len(calls) = 1
       /\ ~getEmbeddedPanelsFromAPI(detectSavedObject(url).id, dashResponse).ok
  /\ pc # "idle" => domRuns = 0
  /\ (reply # Undefined /\ (reply.kind = "rejected" \/ ~reply.ok)) =>
       /\ pc = "done"
       /\ Len(calls) = 1
       /\ downloads = << >>
       /\ Len(responses) = 1
       /\ responses[1].success = Bool(FALSE)

\* C17 witness: the bulk export endpoint answered 400, the export is over
\* and has failed, and the one call is all that was issued.
C17_Witness ==
  /\ pc = "done"
  /\ branch = "bulk"
  /\ reply.kind = "response"
  /\ ~reply.ok
  /\ Len(calls) = 1
  /\ Len(responses) = 1
  /\ responses[1].success = Bool(FALSE)

\* the listener has been handed a message
Delivered == ~NoMessageYet

\* no branch of the listener is suspended at an await
AtRest ==
  /\ scanPc \in { "idle", "done" }
  /\ pc \in { "idle", "done" }

\* { success: true, filename } or { success: false, error }
IsExportResponse(response) ==
  \/ /\ Get(response, "success") = Bool(TRUE)
     /\ Truthy(Get(response, "filename"))
     /\ Get(response, "error") = Undefined
  \/ /\ Get(response, "success") = Bool(FALSE)
     /\ Get(response, "error") # Undefined

\* C18: a message delivered to the listener, whatever its action, is
\* answered exactly once: never twice, and once its handling has come to
\* rest, once; the answer to an export request is { success: true,
\* filename } or { success: false, error }.
C18_ExactlyOneResponse ==
  /\ Len(responses) <= 1
  /\ (Delivered /\ AtRest) =>
       /\ Len(responses) = 1
       /\ pc = "done" => IsExportResponse(responses[1])

-----------------------------------------------------------------------------
(* Claims about the popup *)

\* the answer to a getSavedObjectInfo message, as opposed to an export's
IsDetectionResponse(response) == "isKibanaPage" \in DOMAIN response

\* C19: nothing detected, detected but not exportable, and export failed
\* are three distinct signals. A detection response has savedObject null
\* exactly when isKibanaPage is false, and that only when no URL pattern
\* matched; a non-exportable resource is reported as detected, with its
\* flag and reason; a detection response never carries success or error,
\* and an export is answered only with { success: true, filename } or
\* { success: false, error }. In the popup exactly one state is visible;
\* it is notDetected only with nothing detected, notExportable only for a
\* flagged resource that was never exported, and error only after an
\* export attempt on an exportable resource; each signal leads to its
\* state.
C19_DistinctSignals ==
  /\ Cardinality(visible) = 1
  /\ \A i \in 1..Len(responses) :
       LET response == responses[i]
       IN IF IsDetectionResponse(response)
            THEN /\ (response.savedObject = Null)
                      <=> (response.isKibanaPage = Bool(FALSE))
                 /\ response.isKibanaPage \in { Bool(FALSE), Bool(TRUE) }
                 /\ response.savedObject = Null => FirstMatching(url) = 0
                 /\ (FirstMatching(url) # 0
                       /\ KIBANA_PATTERNS[FirstMatching(url)] = "cases") =>
                      /\ response.isKibanaPage = Bool(TRUE)
                      /\ response.savedObject.type = S("cases")
                      /\ response.savedObject.notExportable = Bool(TRUE)
                      /\ response.savedObject.notExportableReason =
                           S("Cases are not exportable via any known API")
                 /\ Get(response, "success") = Undefined
                 /\ Get(response, "error") = Undefined
            ELSE IsExportResponse(response)
  /\ "notDetected" \in visible =>
       /\ currentSavedObject = Null
       /\ pc = "idle"
  /\ "notExportable" \in visible =>
       /\ Get(currentSavedObject, "notExportable") = Bool(TRUE)
       /\ shownText.neReason = currentSavedObject.notExportableReason
       /\ pc = "idle"
  /\ "error" \in visible =>
       /\ popupPc = "exportSavedObject:done"
       /\ currentSavedObject # Null
       /\ ~Truthy(Get(currentSavedObject, "notExportable"))
       /\ Truthy(shownText.errorMessage)
  /\ (popupPc = "getSavedObjectInfo:done" /\ Len(responses) = 1) =>
       /\ responses[1].savedObject = Null => visible = { "notDetected" }
       /\ Truthy(Get(responses[1].savedObject, "notExportable")) =>
            visible = { "notExportable" }
  /\ (popupPc = "exportSavedObject:done" /\ pc = "done"
        /\ responses[Len(responses)].success = Bool(FALSE)) =>
       /\ visible \in { { "error" }, { "detected" } }
       /\ shownText.errorMessage = responses[Len(responses)].error

\* C19 witness: the backend refused the export of a detected resource and
\* the popup shows the error state with the error of the response.
C19_Witness ==
  /\ visible = { "error" }
  /\ pc = "done"
  /\ Len(responses) = 2
  /\ IsDetectionResponse(responses[1])
  /\ responses[2].success = Bool(FALSE)
  /\ shownText.errorMessage = responses[2].error

-----------------------------------------------------------------------------
(* Claims about the descriptors of a scan *)

\* a string that is not the empty string
NonEmptyString(v) == v.kind = "string" /\ Truthy(v)

\* C20: every descriptor of the list a scan returns - the primary
\* resource, the panels harvested from the parent document, the panels
\* found in the page - has a non-empty type.
C20_EveryDescriptorTyped ==
  scanPc = "done" =>
    /\ \A i \in 1..Len(resources) : NonEmptyString(Get(resources[i], "type"))
    /\ \A i \in 1..Len(responses[1].resources.items) :
         NonEmptyString(Get(responses[1].resources.items[i], "type"))

-----------------------------------------------------------------------------
(* Claims about a session of scans, highlights, scrolls and exports *)

-----------------------------------------------------------------------------
(* Claims about the DOM-path harvester *)

\* the containers that yield a panel info, with their positions, as the
\* harvester ordered them
Placed == ArraySort("position", PanelInfos(DetectedElements(dom)))

\* whether the panel at a comes before the panel at b by the documented
\* rule: more than rowThreshold apart the smaller top, else the smaller left
MayPrecede(a, b) ==
  IF Abs(a.top - b.top) > rowThreshold THEN a.top < b.top ELSE a.left <= b.left

\* C23: in the result of the DOM path every pair of panels, adjacent or
\* not, is in position order: tops more than 50 apart, the smaller top
\* first; tops within 50, the smaller left first.
C23_EveryPairOrdered ==
  harvested # Pending =>
    /\ harvested.value = [i \in 1..Len(Placed) |-> Placed[i].info]
    /\ \A i, j \in 1..Len(Placed) :
         i < j => MayPrecede(Placed[i].position, Placed[j].position)

\* whether one of the title selectors finds an element with text
FoundTitle(container) ==
  \E i \in 1..Len(container.titleTexts) : Truthy(container.titleTexts[i])

\* whether one of the five methods finds an id
FoundId(container) ==
  \/ \E i \in 1..Len(container.dataAttrs) : Truthy(container.dataAttrs[i])
  \/ \E i \in 1..Len(container.childData) :
       \E k \in 1..Len(container.childData[i]) : Truthy(container.childData[i][k])
  \/ \E i \in 1..Len(container.editLinks) : EditLinkMatch(container.editLinks[i]) # Null
  \/ /\ container.visContainer # Null
     /\ \/ Truthy(container.visContainer.renderCompleteId)
        \/ Truthy(container.visContainer.embeddableId)
  \/ \E i \in 1..Len(container.attrValues) : UuidMatch(container.attrValues[i]) # Null

\* the containers found by the selector that yield a title or an id
Yielding ==
  SelectSeq(DetectedElements(dom), LAMBDA container : FoundTitle(container) \/ FoundId(container))

\* C24: the DOM path returns, without an error, one descriptor for each
\* container for which a title or an id was found and none for the others,
\* whatever the other containers yield; the title is 'Untitled Panel' when
\* only an id was found and the id is null when only a title was found.
C24_DescriptorIffTitleOrId ==
  harvested # Pending =>
    /\ harvested.ok
    /\ Len(harvested.value) = Len(Yielding)
    /\ \E place \in Permutations(1..Len(Yielding)) :
         \A k \in 1..Len(Yielding) :
           /\ harvested.value[place[k]].title =
                (IF FoundTitle(Yielding[k])
                   THEN FirstTruthy(Yielding[k].titleTexts)
                   ELSE S("Untitled Panel"))
           /\ (harvested.value[place[k]].id = Null) <=> ~FoundId(Yielding[k])

\* a page with a container yielding neither between one with only an id
\* and one with only a title
C24_Witness ==
  /\ harvested # Pending
  /\ Len(dom.elements) = 3
  /\ FoundId(dom.elements[1]) /\ ~FoundTitle(dom.elements[1])
  /\ ~FoundId(dom.elements[2]) /\ ~FoundTitle(dom.elements[2])
  /\ FoundTitle(dom.elements[3]) /\ ~FoundId(dom.elements[3])
  /\ Len(harvested.value) = 2
  /\ \E i \in 1..2 : harvested.value[i].title = S("Untitled Panel")
  /\ \E i \in 1..2 : harvested.value[i].id = Null

-----------------------------------------------------------------------------
(* Claims about the highlight *)

\* C25: the highlight is a single slot. After any sequence of highlight and
\* unhighlight messages and scroll or resize events at most one overlay is
\* on the page, and it is the one in the overlay slot (a highlight removes
\* the overlay of the previous one first); the overlay slot is filled only
\* when the element slot is; and after an unhighlight, the first or a
\* repeated one, both slots are empty and no overlay is on the page.
C25_SingleHighlightSlot ==
  /\ overlays <= 1
  /\ overlays = (IF highlightOverlay # Null THEN 1 ELSE 0)
  /\ highlightOverlay # Null => highlightedElement # Null
  /\ (handled # Null /\ handled.action = S("unhighlightPanel")) =>
       (highlightedElement = Null /\ highlightOverlay = Null /\ overlays = 0)

\* the third message of a session was a highlight that drew an overlay,
\* which a later scroll moved with its panel
C25_Witness ==
  /\ Len(responses) = 3
  /\ \A i \in 1..3 : responses[i] = Success
  /\ handled.action = S("highlightPanel")
  /\ overlays = 1
  /\ scrollY # 0
  /\ highlightOverlay.top = highlightedElement.rect.top
  /\ highlightOverlay.top < 0

\* C27: a highlight request for index i of the scanned resource list
\* highlights the container of entry i: nothing for index 0, and for i >= 1
\* the container that yields the title of entry i, whichever path the list
\* came from and whether or not the DOM path dropped a container.
C27_HighlightsScannedEntry ==
  ( /\ handled # Null
    /\ handled.action = S("highlightPanel")
    /\ Len(ScanResponses) > 0
    /\ handled.index.num < Len(ScanResponses[1].resources.items) ) =>
    IF handled.index.num = 0
      THEN highlightedElement = Null
      ELSE /\ highlightedElement # Null
           /\ extractPanelInfo(highlightedElement) # Null
           /\ extractPanelInfo(highlightedElement).title =
                ScanResponses[1].resources.items[handled.index.num + 1].title

-----------------------------------------------------------------------------
(* Claims about the injection guard *)

\* a page on which the file ran is initialized once; one on which it did
\* not run is not initialized
InitializedOnce ==
  /\ messageListeners <= 1
  /\ positionListeners <= 1
  /\ injections = 0 => (~loaded /\ messageListeners = 0 /\ positionListeners = 0)
  /\ injections > 0 => (loaded /\ messageListeners = 1 /\ positionListeners = 1)

\* a step answers at most one message, once
AnsweredOnce ==
  \/ responses' = responses
  \/ /\ Len(responses') = Len(responses) + 1
     /\ SubSeq(responses', 1, Len(responses)) = responses

\* C26: however many times the content script is injected into a page it
\* is initialized exactly once: one message listener and one scroll and
\* resize listener, so that a request is handled and answered once; a new
\* page starts uninitialized.
C26_InitializedExactlyOnce == [](InitializedOnce) /\ [][AnsweredOnce]_vars

\* the file ran on the page more than once, a highlight request was
\* answered once, and the one position listener moved its overlay
C26_Witness ==
  /\ injections > 1
  /\ responses = << Success >>
  /\ handled # Null
  /\ handled.action = S("highlightPanel")
  /\ overlays = 1
  /\ scrollY # 0
  /\ highlightOverlay.top = highlightedElement.rect.top

-----------------------------------------------------------------------------
(* Claims about harvest followed by export *)

\* the panel-list entries in the order the API path describes them
HarvestedEntries == ArraySort("grid", PanelList(dashResponse))

\* C28: an export request built from any descriptor of the API path takes
\* the embedded branch and synthesizes the record of the panel-list entry
\* the descriptor was made from, whatever that entry's panelIndex is:
\* missing, empty, zero, or shared with another entry.
C28_ExportsHarvestedEntry ==
  (request # Null /\ Len(ScanResponses) = 1) =>
    /\ branch = "embedded"
    /\ pc # "awaitembedded" =>
         \A k \in 2..Len(StoredResources) :
           request = SidepanelExportMessage(StoredResources[k]) =>
             \E now \in Timestamps, uuid \in RandomUuids :
               content = constructPanelExport(HarvestedEntries[k - 1],
                                              S("Overview"), now, uuid)

-----------------------------------------------------------------------------
(* Claims about the logger *)

\* every setDebugEnabled call and every init() call has completed
LoggerSettled == inbox = << >> /\ initPromise # "pending"

\* the read of an init() fails in this step
ReadFailureStep ==
  /\ inbox # << >>
  /\ Head(inbox).type = "getFailed"
  /\ inbox' = Tail(inbox)

\* C30: concurrent init() calls cause at most one storage read; once a
\* setDebugEnabled(v) and every init() in flight have completed,
\* isDebugEnabled() answers v, a late init not overwriting the newer
\* value; and when the read fails debug is off and the logger counts as
\* initialized.
C30_LoggerConverges ==
  /\ [](storageReads <= 1)
  /\ []((LoggerSettled /\ lastSet # Null) => Bool(debugEnabled) = lastSet)
  /\ [][ReadFailureStep => (~debugEnabled' /\ initialized')]_vars

=============================================================================
